---- MODULE Spec2Model ----
(***************************************************************************)
(* A model of the Cube interpreter: scanner, keyword table, single-pass    *)
(* compiler, bytecode chunk, heap objects, hash tables and the stack VM.   *)
(* Text is a sequence of one-character strings; the NUL that ends a C      *)
(* string is the empty string "".  Pointers are indices into a heap, 0 is  *)
(* NULL.                                                                   *)
(***************************************************************************)
EXTENDS Integers, Sequences, FiniteSets, TLC

VARIABLES vm, heap, ents, freed, parser, scanner, compiler, marks, defined, out, errs,
          result, phase, lines, steps

vars ==
  <<vm, heap, ents, freed, parser, scanner, compiler, marks, defined, out, errs, result,
    phase, lines, steps>>

(***************************************************************************)
(* Characters.  The printable ASCII characters in code order, from 32.     *)
(***************************************************************************)
AsciiTable ==
  <<" ", "!", "\"", "#", "$", "%", "&", "'", "(", ")", "*", "+", ",", "-", ".", "/",
    "0", "1", "2", "3", "4", "5", "6", "7", "8", "9", ":", ";", "<", "=", ">", "?",
    "@", "A", "B", "C", "D", "E", "F", "G", "H", "I", "J", "K", "L", "M", "N", "O",
    "P", "Q", "R", "S", "T", "U", "V", "W", "X", "Y", "Z", "[", "\\", "]", "^", "_",
    "(grave)", "a", "b", "c", "d", "e", "f", "g", "h", "i", "j", "k", "l", "m", "n", "o",
    "p", "q", "r", "s", "t", "u", "v", "w", "x", "y", "z", "{", "|", "}", "~">>

\* The value of a char: what the C code gets when it uses *string as an int.
Ord(c) ==
  IF c = "" THEN 0
  ELSE IF c = "\t" THEN 9
  ELSE IF c = "\n" THEN 10
  ELSE 31 + (CHOOSE i \in 1..Len(AsciiTable) : AsciiTable[i] = c)

NULL == <<>>

\* die(): the message goes to stderr and the process aborts.
DIE == <<"Cube error String length must be larger than zero.">>

\* string_copy: a copy of the first length characters; aborts when length <= 0.
string_copy(s, length) ==
  IF length <= 0 THEN DIE ELSE SubSeq(s, 1, length)

(***************************************************************************)
(* source.c: the source buffer the scanner reads.                          *)
(***************************************************************************)
source_create(source) ==
  [buffer |-> source, start |-> 1, current |-> 1, line |-> 1, col |-> 1]

is_at_end(s) == s.current > Len(s.buffer)

source_peek(s) == IF is_at_end(s) THEN "" ELSE s.buffer[s.current]

peek_next(s) ==
  IF is_at_end(s) \/ s.current + 1 > Len(s.buffer) THEN "" ELSE s.buffer[s.current + 1]

source_advance(s) == [s EXCEPT !.current = @ + 1, !.col = @ + 1]

increment_line(s) == [s EXCEPT !.line = @ + 1, !.col = 1]

start_token(s) == [s EXCEPT !.start = s.current]

token_length(s) == s.current - s.start

\* match(Source, expected): TRUE when the current character is the expected one
\* (the caller then steps over it with source_advance).
source_match(s, expected) == ~is_at_end(s) /\ s.buffer[s.current] = expected

RECURSIVE skip_whitespace(_)
skip_whitespace(s) ==
  LET c == source_peek(s)
  IN  IF c \in {" ", "\t"} THEN skip_whitespace(source_advance(s))
      ELSE IF c = "\n" THEN skip_whitespace(source_advance(increment_line(s)))
      ELSE IF c = "#"
        THEN LET RECURSIVE to_eol(_)
                 to_eol(t) == IF source_peek(t) # "\n" /\ ~is_at_end(t)
                                THEN to_eol(source_advance(t)) ELSE t
             IN  skip_whitespace(to_eol(s))
      ELSE s

(***************************************************************************)
(* keywords.c: the keyword table and its hashed lookup.                    *)
(***************************************************************************)
HASH_MAX == 7919

NUM_KEYWORDS == 23

keywords ==
  << [token_type |-> "TOKEN_BEGIN",  hash |-> 2504, word |-> <<"b","e","g","i","n">>],
     [token_type |-> "TOKEN_BREAK",  hash |-> 3748, word |-> <<"b","r","e","a","k">>],
     [token_type |-> "TOKEN_CASE",   hash |-> 3481, word |-> <<"c","a","s","e">>],
     [token_type |-> "TOKEN_CLASS",  hash |-> 1018, word |-> <<"c","l","a","s","s">>],
     [token_type |-> "TOKEN_DEF",    hash |-> 4235, word |-> <<"d","e","f">>],
     [token_type |-> "TOKEN_DO",     hash |-> 2081, word |-> <<"d","o">>],
     [token_type |-> "TOKEN_ELSE",   hash |-> 1128, word |-> <<"e","l","s","e">>],
     [token_type |-> "TOKEN_END",    hash |-> 7082, word |-> <<"e","n","d">>],
     [token_type |-> "TOKEN_ENSURE", hash |-> 7205, word |-> <<"e","n","s","u","r","e">>],
     [token_type |-> "TOKEN_FALSE",  hash |-> 2595, word |-> <<"f","a","l","s","e">>],
     [token_type |-> "TOKEN_IF",     hash |-> 6130, word |-> <<"i","f">>],
     [token_type |-> "TOKEN_IMPORT", hash |-> 3869, word |-> <<"i","m","p","o","r","t">>],
     [token_type |-> "TOKEN_NEXT",   hash |-> 1643, word |-> <<"n","e","x","t">>],
     [token_type |-> "TOKEN_NIL",    hash |-> 4493, word |-> <<"n","i","l">>],
     [token_type |-> "TOKEN_RESCUE", hash |-> 7137, word |-> <<"r","e","s","c","u","e">>],
     [token_type |-> "TOKEN_RETURN", hash |-> 2618, word |-> <<"r","e","t","u","r","n">>],
     [token_type |-> "TOKEN_SUPER",  hash |-> 4786, word |-> <<"s","u","p","e","r">>],
     [token_type |-> "TOKEN_SWITCH", hash |-> 5077, word |-> <<"s","w","i","t","c","h">>],
     [token_type |-> "TOKEN_THIS",   hash |-> 5937, word |-> <<"t","h","i","s">>],
     [token_type |-> "TOKEN_TRUE",   hash |-> 749,  word |-> <<"t","r","u","e">>],
     [token_type |-> "TOKEN_UNLESS", hash |-> 7846, word |-> <<"u","n","l","e","s","s">>],
     [token_type |-> "TOKEN_UNTIL",  hash |-> 1255, word |-> <<"u","n","t","i","l">>],
     [token_type |-> "TOKEN_WHILE",  hash |-> 6530, word |-> <<"w","h","i","l","e">>] >>

\* The value find_keyword returns for "not a keyword" (0 in the C code).
NO_KEYWORD == "0"

\* The universal string hash of keywords.c and object.c: h and a evolve per
\* character; size is HASH_MAX for keywords and the capacity for tables.
RECURSIVE hash_from(_, _, _, _, _)
hash_from(word, i, h, a, size) ==
  IF i > Len(word) THEN h
  ELSE hash_from(word, i + 1, (a * h + Ord(word[i])) % size,
                 (a * 27183) % (size - 1), size)

hash(word) == hash_from(word, 1, 0, 31415, HASH_MAX)

\* memcmp over the keyword's own length.
verify_keyword(word, index) ==
  LET kw == keywords[index].word
  IN  IF Len(word) >= Len(kw) /\ SubSeq(word, 1, Len(kw)) = kw
        THEN keywords[index].token_type
        ELSE NO_KEYWORD

find_keyword(word) ==
  IF word = NULL THEN NO_KEYWORD
  ELSE IF Len(word) < 1 \/ Len(word) > 6 THEN NO_KEYWORD
  ELSE LET value == hash(word)
           hits  == {i \in 1..NUM_KEYWORDS : keywords[i].hash = value}
       IN  IF hits = {} THEN NO_KEYWORD
           ELSE verify_keyword(word, CHOOSE i \in hits : \A j \in hits : i <= j)

(***************************************************************************)
(* token.c and scanner.c: tokens and the scanner.                          *)
(***************************************************************************)
token_create(type, lexeme, line, col) ==
  [type |-> type, lexeme |-> lexeme, line |-> line, col |-> col]

is_alpha(c) ==
  \/ Ord(c) >= Ord("a") /\ Ord(c) <= Ord("z")
  \/ Ord(c) >= Ord("A") /\ Ord(c) <= Ord("Z")
  \/ c = "_"

is_digit(c) == Ord(c) >= Ord("0") /\ Ord(c) <= Ord("9")

\* The characters of the token being scanned, from start up to current.
token_text(s) == SubSeq(s.buffer, s.start, s.current - 1)

make_token(s, type) ==
  IF type \in {"TOKEN_IDENTIFIER", "TOKEN_INTEGER", "TOKEN_REAL"}
    THEN token_create(type, string_copy(token_text(s), token_length(s)), s.line, s.col)
  ELSE IF type = "TOKEN_STRING"
    THEN token_create(type, string_copy(Tail(token_text(s)), token_length(s) - 2),
                      s.line, s.col)
  ELSE token_create(type, NULL, s.line, s.col)

error_token(s, message) == token_create("TOKEN_ERROR", <<message>>, s.line, s.col)

\* A token of the given type together with the source it was cut from.
scanned(s, type) == [token |-> make_token(s, type), source |-> s]

identifier_type(s) ==
  LET pick(type) == IF type # NO_KEYWORD THEN type ELSE "TOKEN_IDENTIFIER"
  IN  pick(find_keyword(string_copy(token_text(s), token_length(s))))

\* Each scanning function yields the token and the source it leaves behind.
RECURSIVE identifier(_)
identifier(s) ==
  IF is_alpha(source_peek(s)) \/ is_digit(source_peek(s))
    THEN identifier(source_advance(s))
    ELSE scanned(s, identifier_type(s))

RECURSIVE digits(_)
digits(s) == IF is_digit(source_peek(s)) THEN digits(source_advance(s)) ELSE s

number(s) ==
  LET fraction(t) ==
        IF source_peek(t) = "." /\ is_digit(peek_next(t))
          THEN scanned(digits(source_advance(t)), "TOKEN_REAL")
          ELSE scanned(t, "TOKEN_INTEGER")
  IN  fraction(digits(s))

RECURSIVE scan_string(_)
scan_string(s) ==
  IF source_peek(s) # "\"" /\ ~is_at_end(s)
    THEN scan_string(source_advance(IF source_peek(s) = "\n" THEN increment_line(s) ELSE s))
  ELSE IF is_at_end(s)
    THEN [token |-> error_token(s, "Unterminated string."), source |-> s]
  ELSE scanned(source_advance(s), "TOKEN_STRING")

\* The token types of the one-character punctuation.
punctuation ==
  [c \in {"(", ")", "{", "}", "[", "]", "%", ",", "^", ".", "-", "+", ";", "/", "*",
          "&", "|"} |->
     CASE c = "(" -> "TOKEN_LEFT_PAREN"   [] c = ")" -> "TOKEN_RIGHT_PAREN"
       [] c = "{" -> "TOKEN_LEFT_BRACE"   [] c = "}" -> "TOKEN_RIGHT_BRACE"
       [] c = "[" -> "TOKEN_LEFT_BRACKET" [] c = "]" -> "TOKEN_RIGHT_BRACKET"
       [] c = "%" -> "TOKEN_PERCENT"      [] c = "," -> "TOKEN_COMMA"
       [] c = "^" -> "TOKEN_CARET"        [] c = "." -> "TOKEN_DOT"
       [] c = "-" -> "TOKEN_MINUS"        [] c = "+" -> "TOKEN_PLUS"
       [] c = ";" -> "TOKEN_SEMICOLON"    [] c = "/" -> "TOKEN_SLASH"
       [] c = "*" -> "TOKEN_STAR"         [] c = "&" -> "TOKEN_AND"
       [] c = "|" -> "TOKEN_OR"]

\* The token types of the operators that may be followed by "=".
comparison ==
  [c \in {"!", "=", ">", "<"} |->
     CASE c = "!" -> <<"TOKEN_BANG_EQUAL", "TOKEN_BANG">>
       [] c = "=" -> <<"TOKEN_EQUAL_EQUAL", "TOKEN_EQUAL">>
       [] c = ">" -> <<"TOKEN_GREATER_EQUAL", "TOKEN_GREATER">>
       [] c = "<" -> <<"TOKEN_LESS_EQUAL", "TOKEN_LESS">>]

\* The switch of next_token on the character c just read; s is the source
\* after it.
scan_token(c, s) ==
  IF is_alpha(c) THEN identifier(s)
  ELSE IF is_digit(c) THEN number(s)
  ELSE IF c \in DOMAIN punctuation THEN scanned(s, punctuation[c])
  ELSE IF c \in DOMAIN comparison
    THEN IF source_match(s, "=")
           THEN scanned(source_advance(s), comparison[c][1])
           ELSE scanned(s, comparison[c][2])
  ELSE IF c = "\"" THEN scan_string(s)
  ELSE [token |-> error_token(s, "Unexpected character."), source |-> s]

next_token(src) ==
  LET started(s) ==
        IF is_at_end(s) THEN scanned(s, "TOKEN_EOF")
        ELSE scan_token(source_peek(s), source_advance(s))
  IN  started(start_token(skip_whitespace(src)))

(***************************************************************************)
(* Numbers.  A long is an integer (the programs checked stay far inside    *)
(* 64 bits).  A double is a rational [n, d] in lowest terms with d > 0;    *)
(* d = 0 stands for the non-finite values: n = 1 is inf, n = -1 is -inf    *)
(* and n = 0 is nan.                                                       *)
(***************************************************************************)
Sign(x) == IF x > 0 THEN 1 ELSE IF x < 0 THEN -1 ELSE 0

Abs(x) == IF x < 0 THEN -x ELSE x

RECURSIVE GCD(_, _)
GCD(a, b) == IF b = 0 THEN a ELSE GCD(b, a % b)

Real(n, d) ==
  IF d = 0 THEN [n |-> Sign(n), d |-> 0]
  ELSE LET g == GCD(Abs(n), Abs(d))
       IN  [n |-> Sign(d) * (n \div g), d |-> Abs(d) \div g]

NaN == [n |-> 0, d |-> 0]

IsNaN(a) == a.n = 0 /\ a.d = 0

\* C integer division and remainder truncate toward zero.
trunc_div(a, b) == Sign(a) * Sign(b) * (Abs(a) \div Abs(b))

trunc_rem(a, b) == a - b * trunc_div(a, b)

RECURSIVE ipow(_, _)
ipow(a, b) == IF b = 0 THEN 1 ELSE a * ipow(a, b - 1)

real_add(a, b) ==
  IF IsNaN(a) \/ IsNaN(b) THEN NaN
  ELSE IF a.d = 0 /\ b.d = 0 THEN (IF a.n = b.n THEN a ELSE NaN)
  ELSE IF a.d = 0 THEN a
  ELSE IF b.d = 0 THEN b
  ELSE Real(a.n * b.d + b.n * a.d, a.d * b.d)

real_neg(a) == [n |-> -a.n, d |-> a.d]

real_mul(a, b) ==
  IF IsNaN(a) \/ IsNaN(b) THEN NaN
  ELSE IF a.d = 0 \/ b.d = 0 THEN Real(a.n * b.n, 0)
  ELSE Real(a.n * b.n, a.d * b.d)

\* IEEE division: x / 0 is an infinity (nan for 0 / 0), never a trap.
real_div(a, b) ==
  IF IsNaN(a) \/ IsNaN(b) THEN NaN
  ELSE IF a.d = 0 THEN (IF b.d = 0 THEN NaN ELSE Real(a.n * (IF b.n < 0 THEN -1 ELSE 1), 0))
  ELSE IF b.d = 0 THEN Real(0, 1)
  ELSE Real(a.n * b.d, a.d * b.n)

real_less(a, b) ==
  IF IsNaN(a) \/ IsNaN(b) THEN FALSE
  ELSE IF a.d = 0 /\ b.d = 0 THEN a.n < b.n
  ELSE IF a.d = 0 THEN a.n < 0
  ELSE IF b.d = 0 THEN b.n > 0
  ELSE a.n * b.d < b.n * a.d

real_equal(a, b) == ~IsNaN(a) /\ ~IsNaN(b) /\ a = b

\* pow() of math.h for a finite base and a whole exponent; any other power
\* is not a rational and is left as nan here.
pow(a, b) ==
  IF a.d = 0 \/ b.d # 1 THEN NaN
  ELSE IF b.n >= 0 THEN Real(ipow(a.n, b.n), ipow(a.d, b.n))
  ELSE Real(ipow(a.d, -b.n), ipow(a.n, -b.n))

\* (double)long and (long)double; the second truncates.
to_double(i) == Real(i, 1)

to_long(r) == trunc_div(r.n, r.d)

RECURSIVE strtol(_)
strtol(lexeme) ==
  IF lexeme = <<>> THEN 0
  ELSE 10 * strtol(SubSeq(lexeme, 1, Len(lexeme) - 1))
       + (Ord(lexeme[Len(lexeme)]) - Ord("0"))

strtod(lexeme) ==
  LET dot == CHOOSE i \in 1..Len(lexeme) : lexeme[i] = "."
  IN  Real(strtol(SubSeq(lexeme, 1, dot - 1) \o SubSeq(lexeme, dot + 1, Len(lexeme))),
           ipow(10, Len(lexeme) - dot))

(***************************************************************************)
(* The machine.  Code that changes state is an operator from a record m    *)
(* of the whole program state to the record after the call; a returned     *)
(* value is left in m.ret.  m.status is "ok" while the process runs as the *)
(* language defines, "abort" after die(), and "crash" or "hang" when       *)
(* undefined behaviour ends the run.  m.ub is the way undefined behaviour  *)
(* turns out during the call: "benign" (fresh memory reads as zero, freed  *)
(* memory still holds its old content, a division by zero yields 0) or     *)
(* "malign" (fresh memory holds garbage, a bad access traps).              *)
(***************************************************************************)
STACK_MAX == 256

\* A pointer read from uninitialised memory that is not NULL.
WILD == -1

UBChoices == {"benign", "malign"}

Uninitialized(m) == IF m.ub = "malign" THEN WILD ELSE 0

Ok(m) == m.status = "ok"

Fail(m, how) == IF Ok(m) THEN [m EXCEPT !.status = how] ELSE m

Return(m, value) == [m EXCEPT !.ret = value]

(***************************************************************************)
(* object.c: heap objects, each linked into vm.objects when allocated.     *)
(***************************************************************************)
allocate_object(m, type, value) ==
  [m EXCEPT !.heap = Append(@, [type |-> type, next |-> m.objects, value |-> value]),
            !.objects = Len(m.heap) + 1,
            !.ret = Len(m.heap) + 1]

create_boolean(m, value) == allocate_object(m, "OBJ_BOOLEAN", value)

create_nil(m) == allocate_object(m, "OBJ_NIL", 0)

create_integer(m, value) == allocate_object(m, "OBJ_INTEGER", value)

create_real(m, value) == allocate_object(m, "OBJ_REAL", value)

IS_NUMBER(m, o) == m.heap[o].type \in {"OBJ_INTEGER", "OBJ_REAL"}

IS_INTEGER(m, o) == m.heap[o].type = "OBJ_INTEGER"

IS_REAL(m, o) == m.heap[o].type = "OBJ_REAL"

IS_STRING(m, o) == m.heap[o].type = "OBJ_STRING"

objects_equal(m, a, b) ==
  LET x == m.heap[a]
      y == m.heap[b]
  IN  IF x.type # y.type THEN FALSE
      ELSE IF x.type = "OBJ_NIL" THEN TRUE
      ELSE IF x.type = "OBJ_REAL" THEN real_equal(x.value, y.value)
      ELSE x.value = y.value

string_hash(chars, table_size) == hash_from(chars, 1, 0, 31415, table_size)

\* The bucket of an object, from 0.  For an integer the C code multiplies
\* as unsigned and the capacity is a power of two, so the product can be
\* reduced first.
object_hash(m, object, table_size) ==
  LET o == m.heap[object]
  IN  CASE o.type = "OBJ_BOOLEAN" ->
             string_hash(IF o.value THEN <<"t","r","u","e">> ELSE <<"f","a","l","s","e">>,
                         table_size)
        [] o.type = "OBJ_NIL" -> string_hash(<<"n","i","l">>, table_size)
        [] o.type = "OBJ_INTEGER" ->
             ((16161 % table_size) * (o.value % table_size)) % table_size
        [] o.type = "OBJ_REAL" ->
             trunc_rem(trunc_div(616161 * o.value.n, 1000000 * o.value.d), table_size)
        [] o.type = "OBJ_STRING" -> string_hash(o.value, table_size)

(***************************************************************************)
(* table.c: the chained hash table.  m[tn] is the table named tn, a record *)
(* [count, capacity, entries]; entries is <<>> for the NULL array, and a   *)
(* bucket holds an index into the entry heap m.ents, 0 or WILD.            *)
(***************************************************************************)
table_init == [count |-> 0, capacity |-> 0, entries |-> <<>>]

GROW_CAPACITY(capacity) == IF capacity < 8 THEN 8 ELSE capacity * 2

\* The walk of a chain from entry e for a key equal to key: the entry,
\* 0 when the chain ends, WILD when the walk leaves the heap.  The fuel
\* only bounds the recursion: no chain is longer than the entry heap.
RECURSIVE chain_find(_, _, _, _)
chain_find(m, e, key, fuel) ==
  IF e = 0 \/ e = WILD THEN e
  ELSE IF fuel = 0 THEN WILD
  ELSE IF objects_equal(m, m.ents[e].key, key) THEN e
  ELSE chain_find(m, m.ents[e].next, key, fuel - 1)

table_find_entry(m, tn, key) ==
  LET bucket == object_hash(m, key, m[tn].capacity)
  IN  chain_find(m, m[tn].entries[bucket + 1], key, Len(m.ents))

\* The inner loop of table_resize: the chain from entry e is moved into
\* the new bucket array.  The loop steps to e->next after e->next may have
\* been overwritten.  The result is [m, entries].
RECURSIVE rehash_chain(_, _, _, _, _)
rehash_chain(m, entries, e, capacity, fuel) ==
  IF e = 0 \/ ~Ok(m) THEN [m |-> m, entries |-> entries]
  ELSE IF e = WILD THEN [m |-> Fail(m, "crash"), entries |-> entries]
  ELSE IF fuel = 0 THEN [m |-> Fail(m, "hang"), entries |-> entries]
  ELSE LET bucket == object_hash(m, m.ents[e].key, capacity) + 1
           head   == entries[bucket]
       IN  IF head = WILD THEN [m |-> Fail(m, "crash"), entries |-> entries]
           ELSE IF head # 0
             THEN LET m1 == [m EXCEPT !.ents[e].next = m.ents[head].next]
                  IN  rehash_chain(m1, [entries EXCEPT ![bucket] = e],
                                   m1.ents[e].next, capacity, fuel - 1)
           ELSE rehash_chain(m, [entries EXCEPT ![bucket] = e],
                             m.ents[e].next, capacity, fuel - 1)

\* The outer loop of table_resize over the old buckets from bucket i.
RECURSIVE rehash_buckets(_, _, _, _, _)
rehash_buckets(m, old, entries, i, capacity) ==
  IF i > Len(old) \/ ~Ok(m) THEN [m |-> m, entries |-> entries]
  ELSE LET rest(r) == rehash_buckets(r.m, old, r.entries, i + 1, capacity)
       IN  rest(rehash_chain(m, entries, old[i], capacity, 2 * Len(m.ents) + 2))

\* The new array comes from realloc and is not cleared; count is set to 0
\* and then incremented once per old bucket.
table_resize(m, tn) ==
  LET orig_capacity == m[tn].capacity
      capacity == GROW_CAPACITY(orig_capacity)
      fresh == [i \in 1..capacity |-> Uninitialized(m)]
      install(r) == [r.m EXCEPT ![tn] = [count |-> orig_capacity, capacity |-> capacity,
                                         entries |-> r.entries]]
  IN  install(rehash_buckets(m, m[tn].entries, fresh, 1, capacity))

\* The tables of the VM have no parent.
\* What table_search and table_search_string return for the entry found.
found_value(m, entry) ==
  IF entry = WILD THEN Fail(Return(m, 0), "crash")
  ELSE IF entry # 0 THEN Return(m, m.ents[entry].value)
  ELSE Return(m, 0)

\* A search that finds no key.
table_search_misses(m, tn, key) == Return(m, 0)

table_search(m, tn, key) ==
  IF m[tn].entries = <<>> THEN Return(m, 0)
  ELSE found_value(m, table_find_entry(m, tn, key))

RECURSIVE string_find(_, _, _, _)
string_find(m, e, chars, fuel) ==
  IF e = 0 \/ e = WILD THEN e
  ELSE IF fuel = 0 THEN WILD
  ELSE IF m.heap[m.ents[e].key].value = chars THEN e
  ELSE string_find(m, m.ents[e].next, chars, fuel - 1)

table_search_string(m, tn, chars, length) ==
  IF m[tn].entries = <<>> THEN Return(m, 0)
  ELSE found_value(m, string_find(m, m[tn].entries[string_hash(chars, m[tn].capacity) + 1],
                                  SubSeq(chars, 1, length), Len(m.ents)))

\* count + 1 > capacity * TABLE_MAX_LOAD with TABLE_MAX_LOAD 0.75.  A key
\* already present returns at once; a new entry becomes the head of its
\* bucket, taking the old head's next (or keeping its own uninitialised
\* next when the bucket was empty).
table_insert(m, tn, key, value) ==
  LET link(m1, bucket, head) ==
        [m1 EXCEPT !.ents = Append(@, [key |-> key, value |-> value,
                                       next |-> IF head # 0 THEN m1.ents[head].next
                                                ELSE Uninitialized(m1)]),
                   ![tn].entries[bucket] = Len(m1.ents) + 1,
                   ![tn].count = @ + 1]
      place(m1, bucket) == link(m1, bucket, m1[tn].entries[bucket])
      insert(m1, entry) ==
        IF entry = WILD THEN Fail(m1, "crash")
        ELSE IF entry # 0 THEN m1
        ELSE place(m1, object_hash(m1, key, m1[tn].capacity) + 1)
      resized(m1) == IF ~Ok(m1) THEN m1 ELSE insert(m1, table_find_entry(m1, tn, key))
  IN  resized(IF 4 * (m[tn].count + 1) > 3 * m[tn].capacity THEN table_resize(m, tn) ELSE m)

\* The while loop of table_delete: the entry behind head that holds the key
\* is unlinked.
RECURSIVE unlink_after(_, _, _, _, _)
unlink_after(m, tn, head, key, fuel) ==
  LET next == m.ents[head].next
  IN  IF next = 0 THEN m
      ELSE IF next = WILD THEN Fail(m, "crash")
      ELSE IF fuel = 0 THEN Fail(m, "hang")
      ELSE IF objects_equal(m, key, m.ents[next].key)
        THEN [m EXCEPT !.ents[head].next = m.ents[next].next, ![tn].count = @ - 1]
      ELSE unlink_after(m, tn, next, key, fuel - 1)

\* The entry is unlinked and not released.
table_delete(m, tn, key) ==
  LET bucket == object_hash(m, key, m[tn].capacity) + 1
      head == m[tn].entries[bucket]
      unlink ==
        IF objects_equal(m, key, m.ents[head].key)
          THEN [m EXCEPT ![tn].entries[bucket] = m.ents[head].next, ![tn].count = @ - 1]
        ELSE unlink_after(m, tn, head, key, Len(m.ents))
      found(entry) ==
        IF entry = WILD THEN Fail(m, "crash")
        ELSE IF entry = 0 THEN m
        ELSE unlink
  IN  IF m[tn].count = 0 THEN m ELSE found(table_find_entry(m, tn, key))

allocate_string(m, chars, length) ==
  LET intern(m1) == Return(table_insert(m1, "strings", m1.ret, m1.ret), m1.ret)
  IN  intern(allocate_object(m, "OBJ_STRING", chars))

take_string(m, chars, length) ==
  LET interned(m1) == IF ~Ok(m1) \/ m1.ret # 0 THEN m1 ELSE allocate_string(m1, chars, length)
  IN  interned(table_search_string(m, "strings", chars, length))

copy_string(m, chars, length) ==
  LET interned(m1) == IF ~Ok(m1) \/ m1.ret # 0 THEN m1
                      ELSE allocate_string(m1, SubSeq(chars, 1, length), length)
  IN  interned(table_search_string(m, "strings", chars, length))

\* free_object: m.freed lists the objects released, in order.
free_object(m, object) == [m EXCEPT !.freed = Append(@, object)]

\* free_objects: the walk of vm.objects.  The next pointer is read before
\* the object is released.
RECURSIVE free_objects_from(_, _)
free_objects_from(m, object) ==
  IF object = 0 THEN m
  ELSE free_objects_from(free_object(m, object), m.heap[object].next)

free_objects(m) == free_objects_from(m, m.objects)

\* The inner loop of table_free from entry e: the entry is released and
\* then its next pointer is read from the released memory, which yields
\* the pointer it held or anything else.  released is the set of entries
\* this table_free has released.
RECURSIVE free_chain(_, _, _, _)
free_chain(m, e, released, fuel) ==
  IF e = 0 \/ ~Ok(m) THEN [m |-> m, released |-> released]
  ELSE IF e = WILD THEN [m |-> Fail(m, "crash"), released |-> released]
  ELSE IF fuel = 0 THEN [m |-> Fail(m, "hang"), released |-> released]
  ELSE IF e \in released /\ m.ub = "malign"
    THEN [m |-> Fail(m, "crash"), released |-> released]
  ELSE free_chain(m, IF m.ub = "malign" THEN WILD ELSE m.ents[e].next,
                  released \cup {e}, fuel - 1)

\* The outer loop of table_free over the buckets from bucket i.
RECURSIVE free_buckets(_, _, _, _)
free_buckets(m, tn, i, released) ==
  IF i > m[tn].capacity \/ ~Ok(m) THEN m
  ELSE LET rest(r) == free_buckets(r.m, tn, i + 1, r.released)
       IN  rest(free_chain(m, m[tn].entries[i], released, Len(m.ents) + 1))

table_free(m, tn) ==
  LET cleared(m1) == IF Ok(m1) THEN [m1 EXCEPT ![tn] = table_init] ELSE m1
  IN  cleared(free_buckets(m, tn, 1, {}))

\* The inner loop of table_merge from entry e of the table from.
RECURSIVE merge_chain(_, _, _, _)
merge_chain(m, to, e, fuel) ==
  IF e = 0 \/ ~Ok(m) THEN m
  ELSE IF e = WILD THEN Fail(m, "crash")
  ELSE IF fuel = 0 THEN Fail(m, "hang")
  ELSE merge_chain(table_insert(m, to, m.ents[e].key, m.ents[e].value),
                   to, m.ents[e].next, fuel - 1)

\* The outer loop of table_merge over the buckets of from, from bucket i.
RECURSIVE merge_buckets(_, _, _, _)
merge_buckets(m, from, to, i) ==
  IF i > m[from].capacity \/ ~Ok(m) THEN m
  ELSE merge_buckets(merge_chain(m, to, m[from].entries[i], Len(m.ents) + 1),
                     from, to, i + 1)

table_merge(m, from, to) == table_free(merge_buckets(m, from, to, 1), from)

(***************************************************************************)
(* chunk.c and the emitters of compiler.c.  A byte of code is a number;    *)
(* an opcode is its position in the OpCode enumeration.                    *)
(***************************************************************************)
OpCodes ==
  <<"OP_CONSTANT", "OP_POP", "OP_NIL", "OP_GET_LOCAL", "OP_SET_LOCAL", "OP_GET_GLOBAL",
    "OP_DEFINE_GLOBAL", "OP_SET_GLOBAL", "OP_EQUAL", "OP_GREATER", "OP_LESS", "OP_ADD",
    "OP_SUBTRACT", "OP_MULTIPLY", "OP_DIVIDE", "OP_MODULUS", "OP_POWER", "OP_NOT",
    "OP_NEGATE", "OP_PRINT", "OP_JUMP", "OP_JUMP_IF_FALSE", "OP_LOOP", "OP_RETURN">>

Op(name) == (CHOOSE i \in 1..Len(OpCodes) : OpCodes[i] = name) - 1

UINT8_MAX == 255

UINT16_MAX == 65535

init_chunk == [code |-> <<>>, lines |-> <<>>, constants |-> <<>>]

write_chunk(m, byte, line) ==
  [m EXCEPT !.chunk.code = Append(@, byte), !.chunk.lines = Append(@, line)]

add_constant(m, object) ==
  Return([m EXCEPT !.chunk.constants = Append(@, object)], Len(m.chunk.constants))

\* parse_error of error.c writes the position, the token and the message.
parse_error(m, token, message) ==
  [m EXCEPT !.errs = Append(@, [line |-> token.line, col |-> token.col,
                                type |-> token.type, message |-> message])]

\* error without the test of panic_mode.
error_always(m, token, message) ==
  parse_error([m EXCEPT !.parser.panic_mode = TRUE, !.parser.had_error = TRUE],
              token, message)

error(m, token, message) ==
  IF m.parser.panic_mode THEN m
  ELSE parse_error([m EXCEPT !.parser.panic_mode = TRUE, !.parser.had_error = TRUE],
                   token, message)

emit_byte(m, byte) == write_chunk(m, byte, m.parser.previous.line)

emit_bytes(m, byte1, byte2) == emit_byte(emit_byte(m, byte1), byte2)

emit_return(m) == emit_byte(m, Op("OP_RETURN"))

end_compiler(m) == emit_return(m)

\* A make_constant that takes the low byte of any index.
make_constant_wraps(m, object) ==
  LET added(m1) == Return(m1, m1.ret % (UINT8_MAX + 1))
  IN  added(add_constant(m, object))

make_constant(m, object) ==
  LET added(m1) ==
        IF m1.ret > UINT8_MAX
          THEN Return(error(m1, m1.parser.previous, "Too many constants in one chunk."), 0)
          ELSE m1
  IN  added(add_constant(m, object))

emit_constant(m, object) ==
  LET emit(m1) == emit_bytes(m1, Op("OP_CONSTANT"), m1.ret)
  IN  emit(make_constant(m, object))

\* The offset returned is that of the first operand byte, from 0.
emit_jump(m, instruction) ==
  LET emitted(m1) == Return(m1, Len(m1.chunk.code) - 2)
  IN  emitted(emit_byte(emit_byte(emit_byte(m, instruction), 255), 255))

patch_jump(m, offset) ==
  LET jump == Len(m.chunk.code) - offset - 2
      m1 == IF jump > UINT16_MAX
              THEN error(m, m.parser.current, "Too much code to jump over.") ELSE m
  IN  [m1 EXCEPT !.chunk.code[offset + 1] = (jump \div 256) % 256,
                 !.chunk.code[offset + 2] = jump % 256]

\* emit_loop with an offset that is one byte short.
emit_loop_short(m, loop_start) ==
  LET operand(m1, offset) ==
        emit_byte(emit_byte(IF offset > UINT16_MAX
                              THEN error(m1, m1.parser.current, "Loop body too large")
                              ELSE m1,
                            (offset \div 256) % 256),
                  offset % 256)
      emitted(m1) == operand(m1, Len(m1.chunk.code) - loop_start + 1)
  IN  emitted(emit_byte(m, Op("OP_LOOP")))

emit_loop(m, loop_start) ==
  LET operand(m1, offset) ==
        emit_byte(emit_byte(IF offset > UINT16_MAX
                              THEN error(m1, m1.parser.current, "Loop body too large")
                              ELSE m1,
                            (offset \div 256) % 256),
                  offset % 256)
      emitted(m1) == operand(m1, Len(m1.chunk.code) - loop_start + 2)
  IN  emitted(emit_byte(m, Op("OP_LOOP")))

(***************************************************************************)
(* compiler.c: the token stream of the parser.                             *)
(*                                                                         *)
(* The functions of the compiler are mutually recursive: a statement holds *)
(* expressions and statements, an expression holds expressions, and all of *)
(* them advance the parser.  Call(fn, m, x) is the call of the function    *)
(* named fn on the machine m with the argument x (0 when fn takes none);   *)
(* it is defined below the last of them.                                   *)
(***************************************************************************)
RECURSIVE Call(_, _, _)

\* source_destroy frees the current buffer; the scanner keeps the pointer.
\* A second call frees it again.
remove_current_buffer(m) ==
  IF m.scanner.destroyed
    THEN (IF m.ub = "malign" THEN Fail(m, "crash") ELSE m)
    ELSE [m EXCEPT !.scanner.destroyed = TRUE]

\* source_buffers_remain() is always false.  Scanning a destroyed buffer
\* reads freed memory.
RECURSIVE advance_loop(_)
advance_loop(m) ==
  IF ~Ok(m) THEN m
  ELSE IF m.scanner.destroyed /\ m.ub = "malign" THEN Fail(m, "crash")
  ELSE LET got(m1) ==
             IF m1.parser.current.lexeme = DIE THEN Fail(m1, "abort")
             ELSE IF m1.parser.current.type = "TOKEN_EOF" THEN remove_current_buffer(m1)
             ELSE IF m1.parser.current.type # "TOKEN_ERROR" THEN m1
             ELSE advance_loop(error(m1, m1.parser.current, m1.parser.current.lexeme[1]))
           scan(r) == got([m EXCEPT !.scanner.source = r.source, !.parser.current = r.token])
       IN  scan(next_token(m.scanner.source))

advance(m) ==
  IF ~Ok(m) THEN m ELSE advance_loop([m EXCEPT !.parser.previous = m.parser.current])

check(m, type) == m.parser.current.type = type

consume(m, type, message) ==
  IF check(m, type) THEN Call("advance", m, 0) ELSE error(m, m.parser.current, message)

\* match(type) is check(type) followed, when it holds, by advance().
match(m, type) == IF check(m, type) THEN Call("advance", m, 0) ELSE m

(***************************************************************************)
(* compiler.c: the Pratt parser for expressions.                           *)
(***************************************************************************)
PREC_NONE == 0

PREC_ASSIGNMENT == 1

PREC_OR == 2

PREC_AND == 3

PREC_EQUALITY == 4

PREC_COMPARISON == 5

PREC_TERM == 6

PREC_FACTOR == 7

PREC_POWER == 8

PREC_UNARY == 9

PREC_CALL == 10

ParseRule(prefix, infix, precedence) ==
  [prefix |-> prefix, infix |-> infix, precedence |-> precedence]

\* rules[type]: every token type not listed has no parse function and
\* PREC_NONE.
get_rule(type) ==
  CASE type = "TOKEN_LEFT_PAREN" -> ParseRule("grouping", "NULL", PREC_CALL)
    [] type = "TOKEN_DOT" -> ParseRule("NULL", "NULL", PREC_CALL)
    [] type \in {"TOKEN_PERCENT", "TOKEN_SLASH", "TOKEN_STAR"} ->
         ParseRule("NULL", "binary", PREC_FACTOR)
    [] type = "TOKEN_CARET" -> ParseRule("NULL", "binary", PREC_POWER)
    [] type = "TOKEN_MINUS" -> ParseRule("unary", "binary", PREC_TERM)
    [] type = "TOKEN_PLUS" -> ParseRule("NULL", "binary", PREC_TERM)
    [] type = "TOKEN_AND" -> ParseRule("NULL", "and_", PREC_AND)
    [] type = "TOKEN_OR" -> ParseRule("NULL", "or_", PREC_OR)
    [] type = "TOKEN_BANG" -> ParseRule("unary", "NULL", PREC_NONE)
    [] type \in {"TOKEN_BANG_EQUAL", "TOKEN_EQUAL_EQUAL"} ->
         ParseRule("NULL", "binary", PREC_EQUALITY)
    [] type \in {"TOKEN_GREATER", "TOKEN_GREATER_EQUAL", "TOKEN_LESS", "TOKEN_LESS_EQUAL"} ->
         ParseRule("NULL", "binary", PREC_COMPARISON)
    [] type = "TOKEN_IDENTIFIER" -> ParseRule("variable", "NULL", PREC_NONE)
    [] type = "TOKEN_STRING" -> ParseRule("string", "NULL", PREC_NONE)
    [] type = "TOKEN_INTEGER" -> ParseRule("integer", "NULL", PREC_NONE)
    [] type = "TOKEN_REAL" -> ParseRule("real", "NULL", PREC_NONE)
    [] type \in {"TOKEN_FALSE", "TOKEN_NIL", "TOKEN_TRUE"} ->
         ParseRule("literal", "NULL", PREC_NONE)
    [] OTHER -> ParseRule("NULL", "NULL", PREC_NONE)

identifiers_equal(a, b) == a.type = b.type /\ a.lexeme = b.lexeme

\* A resolve_local that does not look at the depth of the local found.
resolve_local_any_depth(m, name) ==
  LET found == {i \in 1..Len(m.compiler.locals) :
                  identifiers_equal(name, m.compiler.locals[i].name)}
  IN  IF found = {} THEN Return(m, -1)
      ELSE Return(m, (CHOOSE j \in found : \A k \in found : k <= j) - 1)

\* The index of the innermost local named name, from 0, or -1.
resolve_local(m, name) ==
  LET found == {i \in 1..Len(m.compiler.locals) :
                  identifiers_equal(name, m.compiler.locals[i].name)}
      i == CHOOSE j \in found : \A k \in found : k <= j
  IN  IF found = {} THEN Return(m, -1)
      ELSE IF m.compiler.locals[i].depth = -1
        THEN Return(error(m, name, "Connot read local variable in its own initializer."),
                    i - 1)
      ELSE Return(m, i - 1)

identifier_constant(m, token) ==
  LET copied(m1) == IF Ok(m1) THEN make_constant(m1, m1.ret) ELSE m1
  IN  copied(copy_string(m, token.lexeme, Len(token.lexeme)))

expression(m) == Call("parse_precedence", m, PREC_ASSIGNMENT)

named_variable(m, name, can_assign) ==
  LET access(m2, local, arg) ==
        IF ~Ok(m2) THEN m2
        ELSE IF can_assign /\ check(m2, "TOKEN_EQUAL")
          THEN emit_bytes(expression(Call("advance", m2, 0)),
                          Op(IF local THEN "OP_SET_LOCAL" ELSE "OP_SET_GLOBAL"), arg)
          ELSE emit_bytes(m2, Op(IF local THEN "OP_GET_LOCAL" ELSE "OP_GET_GLOBAL"), arg)
      with_arg(m2, local) == access(m2, local, m2.ret)
      resolved(m1) == IF m1.ret # -1 THEN with_arg(m1, TRUE)
                      ELSE with_arg(Call("identifier_constant", m1, name), FALSE)
  IN  resolved(resolve_local(m, name))

variable(m, can_assign) == named_variable(m, m.parser.previous, can_assign)

\* and_ without the jump over the right operand.
and_always_right(m, can_assign) ==
  Call("parse_precedence", emit_byte(m, Op("OP_POP")), PREC_AND)

and_(m, can_assign) ==
  LET right(m1) ==
        patch_jump(Call("parse_precedence", emit_byte(m1, Op("OP_POP")), PREC_AND), m1.ret)
  IN  right(emit_jump(m, Op("OP_JUMP_IF_FALSE")))

or_(m, can_assign) ==
  LET right(m2, else_jump) ==
        patch_jump(Call("parse_precedence",
                        emit_byte(patch_jump(m2, else_jump), Op("OP_POP")), PREC_OR),
                   m2.ret)
      left(m1) == right(emit_jump(m1, Op("OP_JUMP")), m1.ret)
  IN  left(emit_jump(m, Op("OP_JUMP_IF_FALSE")))

\* The bytes emitted for a binary operator.
binary_code(type) ==
  CASE type = "TOKEN_BANG_EQUAL" -> <<"OP_EQUAL", "OP_NOT">>
    [] type = "TOKEN_EQUAL_EQUAL" -> <<"OP_EQUAL">>
    [] type = "TOKEN_GREATER" -> <<"OP_GREATER">>
    [] type = "TOKEN_GREATER_EQUAL" -> <<"OP_LESS", "OP_NOT">>
    [] type = "TOKEN_LESS" -> <<"OP_LESS">>
    [] type = "TOKEN_LESS_EQUAL" -> <<"OP_GREATER", "OP_NOT">>
    [] type = "TOKEN_PLUS" -> <<"OP_ADD">>
    [] type = "TOKEN_MINUS" -> <<"OP_SUBTRACT">>
    [] type = "TOKEN_STAR" -> <<"OP_MULTIPLY">>
    [] type = "TOKEN_SLASH" -> <<"OP_DIVIDE">>
    [] type = "TOKEN_PERCENT" -> <<"OP_MODULUS">>
    [] type = "TOKEN_CARET" -> <<"OP_POWER">>
    [] OTHER -> <<>>

binary(m, can_assign) ==
  LET type == m.parser.previous.type
      emit(m1, ops) ==
        IF Len(ops) = 2 THEN emit_bytes(m1, Op(ops[1]), Op(ops[2]))
        ELSE IF Len(ops) = 1 THEN emit_byte(m1, Op(ops[1]))
        ELSE m1
  IN  emit(Call("parse_precedence", m, get_rule(type).precedence + 1), binary_code(type))

\* emit_constant(create_...(...)): the constant is the object just created.
emit_created(m) == emit_constant(m, m.ret)

literal(m, can_assign) ==
  LET type == m.parser.previous.type
  IN  CASE type = "TOKEN_FALSE" -> emit_created(create_boolean(m, FALSE))
        [] type = "TOKEN_NIL" -> emit_created(create_nil(m))
        [] type = "TOKEN_TRUE" -> emit_created(create_boolean(m, TRUE))
        [] OTHER -> m

integer(m, can_assign) ==
  emit_created(create_integer(m, strtol(m.parser.previous.lexeme)))

real(m, can_assign) ==
  emit_created(create_real(m, strtod(m.parser.previous.lexeme)))

string(m, can_assign) ==
  LET copied(m1) == IF Ok(m1) THEN emit_constant(m1, m1.ret) ELSE m1
  IN  copied(copy_string(m, m.parser.previous.lexeme, Len(m.parser.previous.lexeme)))

grouping(m, can_assign) ==
  consume(expression(m), "TOKEN_RIGHT_PAREN", "Expect ')' after grouped expression.")

unary(m, can_assign) ==
  LET type == m.parser.previous.type
      emit(m1) == CASE type = "TOKEN_BANG" -> emit_byte(m1, Op("OP_NOT"))
                    [] type = "TOKEN_MINUS" -> emit_byte(m1, Op("OP_NEGATE"))
                    [] OTHER -> m1
  IN  emit(Call("parse_precedence", m, PREC_UNARY))

\* The call through a ParseFn pointer; a NULL pointer is not a function.
call_rule(fn, m, can_assign) ==
  CASE fn = "grouping" -> grouping(m, can_assign)
    [] fn = "unary" -> unary(m, can_assign)
    [] fn = "binary" -> binary(m, can_assign)
    [] fn = "and_" -> and_(m, can_assign)
    [] fn = "or_" -> or_(m, can_assign)
    [] fn = "variable" -> variable(m, can_assign)
    [] fn = "string" -> string(m, can_assign)
    [] fn = "integer" -> integer(m, can_assign)
    [] fn = "real" -> real(m, can_assign)
    [] fn = "literal" -> literal(m, can_assign)
    [] OTHER -> Fail(m, "crash")

\* The loop of parse_precedence over the infix operators.
RECURSIVE infix_loop(_, _, _)
infix_loop(m, precedence, can_assign) ==
  IF Ok(m) /\ precedence <= get_rule(m.parser.current.type).precedence
    THEN LET infix(m1) ==
               infix_loop(call_rule(get_rule(m1.parser.previous.type).infix, m1, can_assign),
                          precedence, can_assign)
         IN  infix(Call("advance", m, 0))
    ELSE m

\* A parse_precedence that lets a trailing = pass.
parse_precedence_any_target(m, precedence) ==
  LET can_assign == precedence <= PREC_ASSIGNMENT
      prefix(m1, prefix_rule) ==
        IF ~Ok(m1) THEN m1
        ELSE IF prefix_rule = "NULL"
          THEN error(m1, m1.parser.previous, "Expect expression.")
        ELSE infix_loop(call_rule(prefix_rule, m1, can_assign), precedence, can_assign)
      advanced(m1) == prefix(m1, get_rule(m1.parser.previous.type).prefix)
  IN  advanced(Call("advance", m, 0))

parse_precedence(m, precedence) ==
  LET can_assign == precedence <= PREC_ASSIGNMENT
      invalid(m3) == expression(error(m3, m3.parser.previous, "Invalid assignment target."))
      parsed(m2) == IF Ok(m2) /\ can_assign /\ check(m2, "TOKEN_EQUAL")
                      THEN invalid(Call("advance", m2, 0))
                      ELSE m2
      prefix(m1, prefix_rule) ==
        IF ~Ok(m1) THEN m1
        ELSE IF prefix_rule = "NULL"
          THEN error(m1, m1.parser.previous, "Expect expression.")
        ELSE parsed(infix_loop(call_rule(prefix_rule, m1, can_assign),
                               precedence, can_assign))
      advanced(m1) == prefix(m1, get_rule(m1.parser.previous.type).prefix)
  IN  advanced(Call("advance", m, 0))

(***************************************************************************)
(* compiler.c: scopes, declarations and statements.                        *)
(***************************************************************************)
LOCALS_MAX == 256

init_compiler(m) == [m EXCEPT !.compiler = [locals |-> <<>>, scope_depth |-> 0]]

begin_scope(m) == [m EXCEPT !.compiler.scope_depth = @ + 1]

\* The loop of end_scope: one OP_POP for each local of the scope left.
RECURSIVE pop_locals(_)
pop_locals(m) ==
  LET n == Len(m.compiler.locals)
  IN  IF n > 0 /\ m.compiler.locals[n].depth > m.compiler.scope_depth
        THEN pop_locals([emit_byte(m, Op("OP_POP")) EXCEPT
                           !.compiler.locals = SubSeq(@, 1, n - 1)])
        ELSE m

end_scope(m) == pop_locals([m EXCEPT !.compiler.scope_depth = @ - 1])

add_local(m, name) ==
  IF Len(m.compiler.locals) = LOCALS_MAX
    THEN error(m, name, "Too many local variables in function.")
    ELSE [m EXCEPT !.compiler.locals =
                     Append(@, [name |-> name, depth |-> -1])]

\* The locals the loop of declare_variable visits: those from the top down
\* to the first one that belongs to an enclosing scope.
RECURSIVE in_scope(_, _)
in_scope(m, i) ==
  IF i < 1 THEN {}
  ELSE IF m.compiler.locals[i].depth # -1
          /\ m.compiler.locals[i].depth < m.compiler.scope_depth THEN {}
  ELSE {i} \cup in_scope(m, i - 1)

declare_variable(m) ==
  LET name == m.parser.previous
      clash == \E i \in in_scope(m, Len(m.compiler.locals)) :
                 identifiers_equal(name, m.compiler.locals[i].name)
  IN  IF m.compiler.scope_depth = 0 THEN m
      ELSE add_local(IF clash
                       THEN error(m, name,
                                  "Variable with this name already declared in this scope.")
                       ELSE m,
                     name)

\* identifier_constant takes strlen of the lexeme: a token without one
\* (the parser.previous left by a failed consume) is a NULL dereference.
parse_variable(m, error_message) ==
  LET named(m1) ==
        IF ~Ok(m1) THEN m1
        ELSE IF m1.compiler.scope_depth = 0
          THEN (IF m1.parser.previous.lexeme = NULL THEN Fail(m1, "crash")
                ELSE Call("identifier_constant", m1, m1.parser.previous))
        ELSE Return(declare_variable(m1), 0)
  IN  named(consume(m, "TOKEN_IDENTIFIER", error_message))

define_variable(m, global) ==
  IF m.compiler.scope_depth = 0 THEN emit_bytes(m, Op("OP_DEFINE_GLOBAL"), global)
  ELSE IF m.compiler.locals = <<>> THEN Fail(m, "crash")
  ELSE [m EXCEPT !.compiler.locals[Len(m.compiler.locals)].depth = m.compiler.scope_depth]

RECURSIVE synchronize_loop(_)
synchronize_loop(m) ==
  IF ~Ok(m) \/ m.parser.current.type = "TOKEN_EOF" THEN m
  ELSE IF m.parser.previous.type = "TOKEN_SEMICOLON" THEN m
  ELSE IF m.parser.current.type \in
            {"TOKEN_CLASS", "TOKEN_DEF", "TOKEN_IF", "TOKEN_WHILE", "TOKEN_RETURN"} THEN m
  ELSE synchronize_loop(Call("advance", m, 0))

synchronize(m) == synchronize_loop([m EXCEPT !.parser.panic_mode = FALSE])

\* A note, for stating properties, of a place in the code: its offset and
\* the height the operand stack has there, which is the number of locals in
\* scope and, after an expression, the value of the expression.
Mark(m, values) ==
  [m EXCEPT !.marks = @ \cup {[at |-> Len(m.chunk.code),
                               height |-> Len(m.compiler.locals) + values]}]

var_declaration(m) ==
  LET define(m3, global) == IF Ok(m3) THEN define_variable(m3, global) ELSE m3
      initializer(m1) ==
        define(consume(IF check(m1, "TOKEN_EQUAL") THEN expression(Call("advance", m1, 0))
                       ELSE emit_byte(m1, Op("OP_NIL")),
                       "TOKEN_SEMICOLON", "Expect ';' after variable declaration."),
               m1.ret)
  IN  initializer(parse_variable(m, "Expect variable name."))

\* An expression statement whose value is never popped.
expression_statement_keeps_value(m) ==
  consume(Mark(expression(m), 1), "TOKEN_SEMICOLON", "Expect ';' after expression.")

expression_statement(m) ==
  consume(emit_byte(Mark(expression(m), 1), Op("OP_POP")),
          "TOKEN_SEMICOLON", "Expect ';' after expression.")

print_statement(m) ==
  emit_byte(consume(Mark(expression(m), 1), "TOKEN_SEMICOLON", "Expect ';' after value."),
            Op("OP_PRINT"))

\* The loop of brace_block and do_block up to the closing token.
RECURSIVE block_loop(_, _)
block_loop(m, closing) ==
  IF Ok(m) /\ ~check(m, closing) /\ ~check(m, "TOKEN_EOF")
    THEN block_loop(Call("declaration", m, 0), closing)
    ELSE m

brace_block(m) ==
  consume(block_loop(m, "TOKEN_RIGHT_BRACE"), "TOKEN_RIGHT_BRACE", "Expect '}' after block.")

do_block(m) ==
  consume(block_loop(m, "TOKEN_END"), "TOKEN_END", "Expect 'end' after do block.")

\* An if statement that pops its condition on the then path only.
if_statement_keeps_condition(m) ==
  LET else_branch(m5, then_jump) ==
        patch_jump((LET else_part(m6) ==
                          IF check(m6, "TOKEN_ELSE")
                            THEN Call("statement", Call("advance", m6, 0), 0)
                            ELSE m6
                    IN  else_part(patch_jump(m5, then_jump))),
                   m5.ret)
      then_branch(m3) ==
        else_branch(emit_jump(Call("statement", emit_byte(m3, Op("OP_POP")), 0), Op("OP_JUMP")),
                    m3.ret)
  IN  then_branch(emit_jump(consume(Mark(expression(consume(m, "TOKEN_LEFT_PAREN",
                                                            "Expect '(' after 'if'.")), 1),
                                    "TOKEN_RIGHT_PAREN", "Expect ')' after condition."),
                            Op("OP_JUMP_IF_FALSE")))

if_statement(m) ==
  LET else_branch(m5, then_jump) ==
        patch_jump((LET else_part(m6) ==
                          IF check(m6, "TOKEN_ELSE")
                            THEN Call("statement", Call("advance", m6, 0), 0)
                            ELSE m6
                    IN  else_part(emit_byte(patch_jump(m5, then_jump), Op("OP_POP")))),
                   m5.ret)
      then_branch(m3) ==
        else_branch(emit_jump(Call("statement", emit_byte(m3, Op("OP_POP")), 0), Op("OP_JUMP")),
                    m3.ret)
  IN  then_branch(emit_jump(consume(Mark(expression(consume(m, "TOKEN_LEFT_PAREN",
                                                            "Expect '(' after 'if'.")), 1),
                                    "TOKEN_RIGHT_PAREN", "Expect ')' after condition."),
                            Op("OP_JUMP_IF_FALSE")))

while_statement(m) ==
  LET loop_start == Len(m.chunk.code)
      body(m3) ==
        emit_byte(patch_jump(emit_loop(Call("statement", emit_byte(m3, Op("OP_POP")), 0),
                                       loop_start),
                             m3.ret),
                  Op("OP_POP"))
  IN  body(emit_jump(consume(Mark(expression(consume(m, "TOKEN_LEFT_PAREN",
                                                     "Expect '(' after 'while'.")), 1),
                             "TOKEN_RIGHT_PAREN", "Expect ')' after condition."),
                     Op("OP_JUMP_IF_FALSE")))

statement(m) ==
  LET dispatch(m0) ==
        IF check(m0, "TOKEN_IF") THEN if_statement(Call("advance", m0, 0))
        ELSE IF check(m0, "TOKEN_PRINT") THEN print_statement(Call("advance", m0, 0))
        ELSE IF check(m0, "TOKEN_WHILE") THEN while_statement(Call("advance", m0, 0))
        ELSE IF check(m0, "TOKEN_LEFT_BRACE")
          THEN end_scope(brace_block(begin_scope(Call("advance", m0, 0))))
        ELSE IF check(m0, "TOKEN_DO")
          THEN end_scope(do_block(begin_scope(Call("advance", m0, 0))))
        ELSE expression_statement(m0)
  IN  Mark(dispatch(Mark(m, 0)), 0)

\* The end of declaration: a statement that reported an error is skipped.
recover(m) == IF Ok(m) /\ m.parser.panic_mode THEN synchronize(m) ELSE m

declaration(m) ==
  recover(IF check(m, "TOKEN_VAR") THEN Mark(var_declaration(Call("advance", Mark(m, 0), 0)), 0)
          ELSE Call("statement", m, 0))

\* The do-while loop of compile.
RECURSIVE declarations(_)
declarations(m) ==
  LET again(m1) == IF Ok(m1) /\ ~check(m1, "TOKEN_EOF") THEN declarations(m1) ELSE m1
  IN  again(Call("declaration", m, 0))

\* compile(chunk): m.ret is the value returned, !parser.had_error.
compile(m) ==
  LET finish(m3) == Return(m3, ~m3.parser.had_error)
      body(m1) == finish(end_compiler(IF check(m1, "TOKEN_EOF") THEN Call("advance", m1, 0)
                                      ELSE declarations(m1)))
  IN  body(Call("advance", [init_compiler(m) EXCEPT !.parser.had_error = FALSE,
                                            !.parser.panic_mode = FALSE], 0))

\* The call of a function of the compiler by its name.
Call(fn, m, x) ==
  CASE fn = "advance" -> advance(m)
    [] fn = "parse_precedence" -> parse_precedence(m, x)
    [] fn = "identifier_constant" -> identifier_constant(m, x)
    [] fn = "statement" -> statement(m)
    [] fn = "declaration" -> declaration(m)
    [] fn = "compile" -> compile(m)
    [] fn = "var_declaration" -> recover(var_declaration(m))
    [] fn = "begin_scope" -> begin_scope(m)
    [] fn = "end_scope" -> end_scope(m)

(***************************************************************************)
(* vm.c: the operand stack and the arithmetic of the virtual machine.      *)
(* m.stack is the used part of vm.stack; vm.stack_top is its length.       *)
(***************************************************************************)
\* push does not check the bound: the write past vm.stack[STACK_MAX - 1]
\* lands on the fields of the VM that follow the array.
push(m, object) ==
  IF Len(m.stack) >= STACK_MAX
    THEN Fail([m EXCEPT !.stack = Append(@, object)], "crash")
    ELSE [m EXCEPT !.stack = Append(@, object)]

\* pop below the bottom of the stack reads memory in front of the array.
pop(m) ==
  IF m.stack = <<>> THEN Fail(Return(m, 0), "crash")
  ELSE Return([m EXCEPT !.stack = SubSeq(@, 1, Len(@) - 1)], m.stack[Len(m.stack)])

peek(m, distance) == m.stack[Len(m.stack) - distance]

\* push of the object a create_ call has just returned.
push_ret(m) == push(m, m.ret)

reset_stack(m) == [m EXCEPT !.stack = <<>>]

\* runtime_error without its final reset_stack().
runtime_error_keeps_stack(m, format, arg) ==
  [m EXCEPT !.errs = Append(@,
     [line |-> IF m.ip <= Len(m.chunk.lines) THEN m.chunk.lines[m.ip] ELSE 0,
      col |-> 0, type |-> "runtime", message |-> format, arg |-> arg])]

\* The message and its argument go to stderr with the line found at the
\* offset of vm.ip, which has already moved past the instruction.
runtime_error(m, format, arg) ==
  reset_stack([m EXCEPT !.errs = Append(@,
     [line |-> IF m.ip <= Len(m.chunk.lines) THEN m.chunk.lines[m.ip] ELSE 0,
      col |-> 0, type |-> "runtime", message |-> format, arg |-> arg])])

is_falsey(m, object) ==
  \/ m.heap[object].type = "OBJ_NIL"
  \/ m.heap[object].type = "OBJ_BOOLEAN" /\ ~m.heap[object].value

\* The value of a numeric object as a double.
as_double(o) == IF o.type = "OBJ_INTEGER" THEN to_double(o.value) ELSE o.value

\* The shape shared by do_addition, do_subtraction and do_multiplication:
\* two Integers give an Integer, any other pair of numbers a Real.
arithmetic(m, IntOp(_, _), RealOp(_, _)) ==
  LET b  == m.heap[peek(m, 0)]
      a  == m.heap[peek(m, 1)]
      m1 == [m EXCEPT !.stack = SubSeq(@, 1, Len(@) - 2)]
  IN  IF a.type = "OBJ_INTEGER" /\ b.type = "OBJ_INTEGER"
        THEN push_ret(create_integer(m1, IntOp(a.value, b.value)))
        ELSE push_ret(create_real(m1, RealOp(as_double(a), as_double(b))))

\* The shape shared by do_greater and do_less.
comparison_of(m, IntOp(_, _), RealOp(_, _)) ==
  LET b  == m.heap[peek(m, 0)]
      a  == m.heap[peek(m, 1)]
      m1 == [m EXCEPT !.stack = SubSeq(@, 1, Len(@) - 2)]
  IN  IF a.type = "OBJ_INTEGER" /\ b.type = "OBJ_INTEGER"
        THEN push_ret(create_boolean(m1, IntOp(a.value, b.value)))
        ELSE push_ret(create_boolean(m1, RealOp(as_double(a), as_double(b))))

do_greater(m) == comparison_of(m, LAMBDA a, b : a > b, LAMBDA a, b : real_less(b, a))

do_less(m) == comparison_of(m, LAMBDA a, b : a < b, real_less)

do_addition(m) == arithmetic(m, LAMBDA a, b : a + b, real_add)

do_subtraction(m) == arithmetic(m, LAMBDA a, b : a - b, LAMBDA a, b : real_add(a, real_neg(b)))

do_multiplication(m) == arithmetic(m, LAMBDA a, b : a * b, real_mul)

\* The integer division a / b with b = 0 is undefined: it traps, or on
\* hardware without a trap yields 0.
do_division(m) ==
  LET b == m.heap[peek(m, 0)]
      a == m.heap[peek(m, 1)]
  IN  IF a.type = "OBJ_INTEGER" /\ b.type = "OBJ_INTEGER" /\ b.value = 0
        THEN (IF m.ub = "malign" THEN Fail(m, "crash")
              ELSE arithmetic(m, LAMBDA x, y : 0, real_div))
        ELSE arithmetic(m, trunc_div, real_div)

do_modulo(m) ==
  IF m.heap[peek(m, 0)].value = 0
    THEN (IF m.ub = "malign" THEN Fail(m, "crash")
          ELSE arithmetic(m, LAMBDA x, y : 0, real_div))
    ELSE arithmetic(m, trunc_rem, real_div)

\* Two Integers are raised as doubles and the power is stored through
\* create_integer(long); a power that is not finite has no long value.
do_power(m) ==
  LET b == m.heap[peek(m, 0)]
      a == m.heap[peek(m, 1)]
      p == pow(as_double(a), as_double(b))
  IN  IF a.type = "OBJ_INTEGER" /\ b.type = "OBJ_INTEGER" /\ p.d = 0
        THEN (IF m.ub = "malign" THEN Fail(m, "crash")
              ELSE arithmetic(m, LAMBDA x, y : 0, pow))
        ELSE arithmetic(m, LAMBDA x, y : to_long(p), pow)

do_negate(m) ==
  LET m1 == pop(m)
      v  == m1.heap[m1.ret]
  IN  CASE v.type = "OBJ_INTEGER" -> push_ret(create_integer(m1, -v.value))
        [] v.type = "OBJ_REAL" -> push_ret(create_real(m1, real_neg(v.value)))
        [] OTHER -> m1

do_concatenate(m) ==
  LET b  == m.heap[peek(m, 0)]
      a  == m.heap[peek(m, 1)]
      m1 == [m EXCEPT !.stack = SubSeq(@, 1, Len(@) - 2)]
  IN  push_ret(take_string(m1, a.value \o b.value, Len(a.value) + Len(b.value)))

\* printf("%ld"): the decimal digits of a long.
RECURSIVE format_digits(_)
format_digits(n) ==
  IF n < 10 THEN <<AsciiTable[17 + n]>>
  ELSE Append(format_digits(n \div 10), AsciiTable[17 + (n % 10)])

format_long(v) == IF v < 0 THEN <<"-">> \o format_digits(-v) ELSE format_digits(v)

\* printf("%g") for the doubles that have a short exact decimal form: a
\* whole number below 10^6 prints as an integer, a value with up to five
\* decimals prints them without trailing zeros.
format_g(r) ==
  LET scaled == Abs(r.n) * 100000
      whole  == Abs(r.n) \div r.d
      frac   == (scaled \div r.d) % 100000
      RECURSIVE strip(_)
      strip(t) == IF t # <<>> /\ t[Len(t)] = "0" THEN strip(SubSeq(t, 1, Len(t) - 1)) ELSE t
      padded == LET t == format_digits(frac)
                IN  [i \in 1..(5 - Len(t)) |-> "0"] \o t
  IN  IF r.d = 0 THEN (IF r.n = 0 THEN <<"n","a","n">>
                       ELSE IF r.n > 0 THEN <<"i","n","f">> ELSE <<"-","i","n","f">>)
      ELSE (IF r.n < 0 THEN <<"-">> ELSE <<>>) \o format_digits(whole)
           \o (IF frac = 0 THEN <<>> ELSE <<".">> \o strip(padded))

\* The text print_object writes for an object.
print_object(m, object) ==
  LET o == m.heap[object]
  IN  CASE o.type = "OBJ_BOOLEAN" ->
             (IF o.value THEN <<"t","r","u","e">> ELSE <<"f","a","l","s","e">>)
        [] o.type = "OBJ_NIL" -> <<"n","i","l">>
        [] o.type = "OBJ_INTEGER" -> format_long(o.value)
        [] o.type = "OBJ_REAL" -> format_g(o.value)
        [] o.type = "OBJ_STRING" -> <<"\"">> \o o.value \o <<"\"">>

\* The number of stack slots an instruction reads.
operands(instruction) ==
  IF instruction \in {"OP_EQUAL", "OP_GREATER", "OP_LESS", "OP_ADD", "OP_SUBTRACT",
                      "OP_MULTIPLY", "OP_DIVIDE", "OP_MODULUS", "OP_POWER"} THEN 2
  ELSE IF instruction \in {"OP_POP", "OP_SET_LOCAL", "OP_DEFINE_GLOBAL", "OP_SET_GLOBAL",
                           "OP_NOT", "OP_NEGATE", "OP_PRINT", "OP_JUMP_IF_FALSE"} THEN 1
  ELSE 0

\* runtime_error followed by return INTERPRET_RUNTIME_ERROR.
fail_run(m, format, arg) ==
  Return(runtime_error(m, format, arg), "INTERPRET_RUNTIME_ERROR")

\* VALIDATE_BINARY_OPERANDS and the operation that follows it.
validated(m, valid, message, done) ==
  IF valid THEN done ELSE fail_run(m, message, <<>>)

\* A note, for stating properties, of the names for which the VM has made
\* a binding: the name is added when table_insert has returned.
Defined(m, name) ==
  IF Ok(m) THEN [m EXCEPT !.defined = @ \cup {m.heap[name].value}] ELSE m

\* One turn of the for(;;) loop of run(): the instruction at vm.ip is read
\* and executed.  m.ret is "CONTINUE" or the value run() returns.  An
\* opcode without a case (OP_NIL has none) leaves the switch untouched.
run_step(m) ==
  LET byte == m.chunk.code[m.ip]
      instruction == IF byte < Len(OpCodes) THEN OpCodes[byte + 1] ELSE "NONE"
      m1 == Return([m EXCEPT !.ip = @ + 1], "CONTINUE")
      m2 == [m1 EXCEPT !.ip = @ + 1]
      m3 == [m1 EXCEPT !.ip = @ + 2]
      constant == m.chunk.constants[m.chunk.code[m.ip + 1] + 1]
      slot == m.chunk.code[m.ip + 1] + 1
      offset == m.chunk.code[m.ip + 1] * 256 + m.chunk.code[m.ip + 2]
      numbers == IS_NUMBER(m, peek(m, 0)) /\ IS_NUMBER(m, peek(m, 1))
      numeric == "Operands must be numeric."
  IN  IF Len(m.stack) < operands(instruction) THEN Fail(m1, "crash")
      ELSE CASE instruction = "OP_CONSTANT" -> push(m2, constant)
        [] instruction = "OP_POP" -> Return(pop(m1), "CONTINUE")
        [] instruction = "OP_GET_LOCAL" ->
             IF slot <= Len(m.stack) THEN push(m2, m.stack[slot]) ELSE Fail(m2, "crash")
        [] instruction = "OP_SET_LOCAL" ->
             IF slot <= Len(m.stack) THEN [m2 EXCEPT !.stack[slot] = peek(m, 0)]
             ELSE Fail(m2, "crash")
        [] instruction = "OP_GET_GLOBAL" ->
             LET searched(m4) ==
                   IF ~Ok(m4) THEN m4
                   ELSE IF m4.ret = 0
                     THEN fail_run(m4, "Undefined variable '%s'.", m.heap[constant].value)
                   ELSE Return(push(m4, m4.ret), "CONTINUE")
             IN  searched(table_search(m2, "globals", constant))
        [] instruction = "OP_DEFINE_GLOBAL" ->
             Return(pop(Return(Defined(table_insert(m2, "globals", constant, peek(m, 0)),
                                       constant), 0)),
                    "CONTINUE")
        [] instruction = "OP_SET_GLOBAL" ->
             Defined(table_insert(m2, "globals", constant, peek(m, 0)), constant)
        [] instruction = "OP_EQUAL" ->
             Return(push_ret(create_boolean([m1 EXCEPT !.stack = SubSeq(@, 1, Len(@) - 2)],
                                            objects_equal(m, peek(m, 1), peek(m, 0)))),
                    "CONTINUE")
        [] instruction = "OP_GREATER" ->
             validated(m1, numbers, numeric, Return(do_greater(m1), "CONTINUE"))
        [] instruction = "OP_LESS" ->
             validated(m1, numbers, "Operands must be numberic.",
                       Return(do_less(m1), "CONTINUE"))
        [] instruction = "OP_ADD" ->
             IF IS_STRING(m, peek(m, 0)) /\ IS_STRING(m, peek(m, 1))
               THEN Return(do_concatenate(m1), "CONTINUE")
             ELSE IF numbers THEN Return(do_addition(m1), "CONTINUE")
             ELSE fail_run(m1, "Operands must be two numbers or two strings.", <<>>)
        [] instruction = "OP_SUBTRACT" ->
             validated(m1, numbers, numeric, Return(do_subtraction(m1), "CONTINUE"))
        [] instruction = "OP_MULTIPLY" ->
             validated(m1, numbers, numeric, Return(do_multiplication(m1), "CONTINUE"))
        [] instruction = "OP_DIVIDE" ->
             \* The two zero checks compare the object pointer, never NULL,
             \* with 0: neither can hold.
             validated(m1, numbers, numeric, Return(do_division(m1), "CONTINUE"))
        [] instruction = "OP_MODULUS" ->
             validated(m1, IS_INTEGER(m, peek(m, 0)) /\ IS_INTEGER(m, peek(m, 1)),
                       "Modulo operation can only be performed on integer values.",
                       Return(do_modulo(m1), "CONTINUE"))
        [] instruction = "OP_POWER" ->
             validated(m1, numbers, numeric, Return(do_power(m1), "CONTINUE"))
        [] instruction = "OP_NOT" ->
             LET negated(m4) ==
                   Return(push_ret(create_boolean(m4, is_falsey(m4, m4.ret))), "CONTINUE")
             IN  negated(pop(m1))
        [] instruction = "OP_NEGATE" ->
             validated(m1, IS_NUMBER(m, peek(m, 0)), "Operand must be numeric.",
                       Return(do_negate(m1), "CONTINUE"))
        [] instruction = "OP_PRINT" ->
             LET printed(m4) ==
                   Return([m4 EXCEPT !.out = Append(@, <<"-", ">", " ">>
                                                        \o print_object(m4, m4.ret))],
                          "CONTINUE")
             IN  printed(pop(m1))
        [] instruction = "OP_JUMP" -> [m3 EXCEPT !.ip = @ + offset]
        [] instruction = "OP_JUMP_IF_FALSE" ->
             IF is_falsey(m, peek(m, 0)) THEN [m3 EXCEPT !.ip = @ + offset] ELSE m3
        [] instruction = "OP_LOOP" -> [m3 EXCEPT !.ip = @ - offset]
        [] instruction = "OP_RETURN" -> Return(m1, "INTERPRET_OK")
        [] OTHER -> m1

(***************************************************************************)
(* cube.c: the REPL.  Each line read is handed to add_source_line and      *)
(* interpret(); the VM, its tables and its heap live across the lines.     *)
(***************************************************************************)
MaxRuns == 2

MaxSteps == 32

\* print 1 + 2 * 3;
SrcPrint ==
  <<"p", "r", "i", "n", "t", " ", "1", " ", "+", " ", "2", " ", "*", " ", "3", ";">>

\* var i = 0; while (i < 3) { print i; i = i + 1; }
SrcWhile ==
  <<"v", "a", "r", " ", "i", " ", "=", " ", "0", ";", " ", "w", "h", "i", "l", "e",
    " ", "(", "i", " ", "<", " ", "3", ")", " ", "{", " ", "p", "r", "i", "n", "t",
    " ", "i", ";", " ", "i", " ", "=", " ", "i", " ", "+", " ", "1", ";", " ", "}">>

\* var x;
SrcVar ==
  <<"v", "a", "r", " ", "x", ";">>

\* a = 1;
SrcSetA1 ==
  <<"a", " ", "=", " ", "1", ";">>

\* a = 2;
SrcSetA2 ==
  <<"a", " ", "=", " ", "2", ";">>

\* a;
SrcGetA ==
  <<"a", ";">>

\* i = 2; a;
SrcSetI ==
  <<"i", " ", "=", " ", "2", ";", " ", "a", ";">>

\* a = 1; a;
SrcSetGet ==
  <<"a", " ", "=", " ", "1", ";", " ", "a", ";">>

\* 1 / 0;
SrcDivInt ==
  <<"1", " ", "/", " ", "0", ";">>

\* 1.5 / 0.0;
SrcDivReal ==
  <<"1", ".", "5", " ", "/", " ", "0", ".", "0", ";">>

\* 2 ^ 10;
SrcPow ==
  <<"2", " ", "^", " ", "1", "0", ";">>

\* if (1 < 2) 3; else 4; if (2 < 1) 5;
SrcIf ==
  <<"i", "f", " ", "(", "1", " ", "<", " ", "2", ")", " ", "3", ";", " ", "e", "l",
    "s", "e", " ", "4", ";", " ", "i", "f", " ", "(", "2", " ", "<", " ", "1", ")",
    " ", "5", ";">>

\* while (nil | false) 1; do true & 2; end
SrcLoop ==
  <<"w", "h", "i", "l", "e", " ", "(", "n", "i", "l", " ", "|", " ", "f", "a", "l",
    "s", "e", ")", " ", "1", ";", " ", "d", "o", " ", "t", "r", "u", "e", " ", "&",
    " ", "2", ";", " ", "e", "n", "d">>

\* 1 + (2 * (3 - 4));
SrcNest ==
  <<"1", " ", "+", " ", "(", "2", " ", "*", " ", "(", "3", " ", "-", " ", "4", ")",
    ")", ";">>

\* while (1 < 2) 3;
SrcSpin ==
  <<"w", "h", "i", "l", "e", " ", "(", "1", " ", "<", " ", "2", ")", " ", "3", ";">>

\* 1 = 2; a * i = x;
SrcTargets ==
  <<"1", " ", "=", " ", "2", ";", " ", "a", " ", "*", " ", "i", " ", "=", " ", "x",
    ";">>

\* "ab
SrcUnterminated ==
  <<"\"", "a", "b">>

\* 2 ^ 3 ^ 2; 7 - 2 - 1;
SrcAssoc ==
  <<"2", " ", "^", " ", "3", " ", "^", " ", "2", ";", " ",
    "7", " ", "-", " ", "2", " ", "-", " ", "1", ";">>

\* var a = 10; { var a = a + 1; print a; } print a;
SrcScope ==
  <<"v", "a", "r", " ", "a", " ", "=", " ", "1", "0", ";", " ", "{", " ", "v", "a",
    "r", " ", "a", " ", "=", " ", "a", " ", "+", " ", "1", ";", " ", "p", "r", "i",
    "n", "t", " ", "a", ";", " ", "}", " ", "p", "r", "i", "n", "t", " ", "a", ";">>

\* The lines typed at the prompt.
Sources ==
  {SrcPrint, SrcWhile, SrcVar, SrcSetA1, SrcSetA2,
   SrcGetA, SrcSetI, SrcSetGet, SrcDivInt, SrcDivReal, SrcPow,
   SrcIf, SrcLoop, SrcNest, SrcSpin, SrcAssoc,
   SrcScope, SrcTargets, SrcUnterminated}

\* The program state as the record the operators work on.
Machine(ub) ==
  [stack |-> vm.stack, ip |-> vm.ip, chunk |-> vm.chunk, objects |-> vm.objects,
   strings |-> vm.strings, globals |-> vm.globals, heap |-> heap, ents |-> ents,
   freed |-> freed,
   parser |-> parser, scanner |-> scanner,
   compiler |-> compiler,
   marks |-> marks, defined |-> defined, out |-> out, errs |-> errs, status |-> "ok", ub |-> ub, ret |-> 0]

Store(m) ==
  /\ vm' = [stack |-> m.stack, ip |-> m.ip, chunk |-> m.chunk, objects |-> m.objects,
            strings |-> m.strings, globals |-> m.globals]
  /\ heap' = m.heap
  /\ ents' = m.ents
  /\ freed' = m.freed
  /\ parser' = m.parser
  /\ scanner' = m.scanner
  /\ compiler' = m.compiler
  /\ marks' = m.marks
  /\ defined' = m.defined
  /\ out' = m.out
  /\ errs' = m.errs

\* vm_init, and the zeroed globals of the scanner and the parser.
Init ==
  /\ vm = [stack |-> <<>>, ip |-> 1, chunk |-> init_chunk, objects |-> 0,
           strings |-> table_init, globals |-> table_init]
  /\ heap = <<>>
  /\ ents = <<>>
  /\ freed = <<>>
  /\ parser = [current |-> token_create("TOKEN_LEFT_PAREN", NULL, 0, 0),
               previous |-> token_create("TOKEN_LEFT_PAREN", NULL, 0, 0),
               had_error |-> FALSE, panic_mode |-> FALSE]
  /\ scanner = [source |-> source_create(<<>>), destroyed |-> FALSE]
  /\ compiler = [locals |-> <<>>, scope_depth |-> 0]
  /\ marks = {}
  /\ defined = {}
  /\ out = <<>>
  /\ errs = <<>>
  /\ result = "NONE"
  /\ phase = "idle"
  /\ lines = <<>>
  /\ steps = 0

\* interpret without the return on a failed compile: the chunk is run
\* whatever compile() returned.
interpret_without_return(line, ub) ==
  /\ phase = "idle"
  /\ Len(lines) < MaxRuns
  /\ LET compiled(m1) ==
           IF ~Ok(m1)
             THEN Store(m1) /\ phase' = m1.status /\ result' = "NONE"
           ELSE Store([m1 EXCEPT !.ip = 1]) /\ phase' = "running" /\ result' = "NONE"
     IN  compiled(Call("compile", [Machine(ub) EXCEPT
                    !.scanner = [source |-> source_create(line), destroyed |-> FALSE],
                    !.chunk = init_chunk, !.marks = {}], 0))
  /\ lines' = Append(lines, line)
  /\ steps' = 0

\* add_source_line(line) and interpret() up to the call of run(): the line
\* is compiled into a fresh chunk; a failed compile frees it and returns.
interpret(line, ub) ==
  /\ phase = "idle"
  /\ Len(lines) < MaxRuns
  /\ LET compiled(m1) ==
           IF ~Ok(m1)
             THEN Store(m1) /\ phase' = m1.status /\ result' = "NONE"
           ELSE IF ~m1.ret
             THEN /\ Store([m1 EXCEPT !.chunk = init_chunk])
                  /\ phase' = "idle"
                  /\ result' = "INTERPRET_COMPILE_ERROR"
           ELSE Store([m1 EXCEPT !.ip = 1]) /\ phase' = "running" /\ result' = "NONE"
     IN  compiled(Call("compile", [Machine(ub) EXCEPT
                    !.scanner = [source |-> source_create(line), destroyed |-> FALSE],
                    !.chunk = init_chunk, !.marks = {}], 0))
  /\ lines' = Append(lines, line)
  /\ steps' = 0

\* One instruction of run(); when run() returns, interpret() frees the
\* chunk and returns the result.
run(ub) ==
  /\ phase = "running"
  /\ steps < MaxSteps
  /\ LET stepped(m1) ==
           IF ~Ok(m1)
             THEN Store(m1) /\ phase' = m1.status /\ result' = "NONE"
           ELSE IF m1.ret = "CONTINUE"
             THEN Store(m1) /\ phase' = "running" /\ result' = "NONE"
           ELSE Store(m1) /\ phase' = "idle" /\ result' = m1.ret
     IN  stepped(run_step(Machine(ub)))
  /\ steps' = steps + 1
  /\ lines' = lines

\* The end of main(): the prompt is left and vm_free() is called; the
\* result "EXIT" marks that it has been.
vm_free(ub) ==
  /\ phase = "idle"
  /\ LET objects(m1) == IF Ok(m1) THEN free_objects(m1) ELSE m1
         freed_all(m1) == Store(m1) /\ phase' = IF Ok(m1) THEN "exited" ELSE m1.status
     IN  freed_all(objects(table_free(table_free(Machine(ub), "globals"), "strings")))
  /\ result' = "EXIT"
  /\ lines' = lines
  /\ steps' = steps

Next ==
  \/ \E line \in Sources, ub \in UBChoices : interpret(line, ub)
  \/ \E ub \in UBChoices : run(ub)
  \/ \E ub \in UBChoices : vm_free(ub)

Spec == Init /\ [][Next]_vars

(***************************************************************************)
(* compiler.c taken by itself.  declaration() reaches var_declaration()    *)
(* only past match(TOKEN_VAR), and the scanner of this build returns no    *)
(* TOKEN_VAR, so the functions that keep the locals are driven here one    *)
(* call at a time: compile() is started on a text and begin_scope(),       *)
(* end_scope() and the rest of declaration() past a matched TOKEN_VAR are  *)
(* called in any order.  The text holds what follows the word var of each  *)
(* declaration.                                                            *)
(***************************************************************************)
MaxCalls == 5

\* a; a; b = a;
DeclTwice ==
  <<"a", ";", " ", "a", ";", " ", "b", " ", "=", " ", "a", ";">>

\* a = a; b = b + 1;
DeclOwn ==
  <<"a", " ", "=", " ", "a", ";", " ", "b", " ", "=", " ", "b", " ", "+", " ", "1", ";">>

Declarations == {DeclTwice, DeclOwn}

CompilerCalls == {"begin_scope", "end_scope", "var_declaration"}

\* compile() up to and with its first advance().
begin_compile(text, ub) ==
  /\ phase = "idle"
  /\ lines = <<>>
  /\ LET started(m1) == Store(m1) /\ phase' = IF Ok(m1) THEN "compiling" ELSE m1.status
     IN  started(Call("advance", [init_compiler(Machine(ub)) EXCEPT
                    !.scanner = [source |-> source_create(text), destroyed |-> FALSE],
                    !.chunk = init_chunk, !.marks = {},
                    !.parser.had_error = FALSE, !.parser.panic_mode = FALSE], 0))
  /\ result' = "NONE"
  /\ lines' = <<text>>
  /\ steps' = 0

\* One call of a function of the compiler while compile() is under way.
call(fn, ub) ==
  /\ phase = "compiling"
  /\ steps < MaxCalls
  /\ fn = "end_scope" => compiler.scope_depth > 0
  /\ LET called(m1) == Store(m1) /\ phase' = IF Ok(m1) THEN "compiling" ELSE m1.status
     IN  called(Call(fn, Machine(ub), 0))
  /\ result' = "NONE"
  /\ lines' = lines
  /\ steps' = steps + 1

NextCompiler ==
  \/ \E text \in Declarations, ub \in UBChoices : begin_compile(text, ub)
  \/ \E fn \in CompilerCalls, ub \in UBChoices : call(fn, ub)

SpecCompiler == Init /\ [][NextCompiler]_vars

(***************************************************************************)
(* compile() taken one declaration at a time.  A chunk with more than 256  *)
(* constants needs more than 256 statements, which is deeper than one      *)
(* evaluation of the loop of compile() can go, so the loop is unrolled     *)
(* into steps: the start of compile(), one declaration() per step while    *)
(* the current token is not TOKEN_EOF, and the end of compile().  The      *)
(* texts are the statements  100;101;102;  and so on, one constant each.   *)
(***************************************************************************)
MaxDeclarations == 258

\* The literal of statement k, from 0: three digits.
Literal(k) == 100 + k

\* The text of n statements:  100;101;102;  and so on.
Numbered(n) ==
  [i \in 1..(4 * n) |->
     IF i % 4 = 0 THEN ";" ELSE format_long(Literal((i - 1) \div 4))[i % 4]]

\* As many constants as an operand byte can index, and two more.
FullChunk == Numbered(UINT8_MAX + 1)

OverfullChunk == Numbered(UINT8_MAX + 3)

ConstantTexts == {FullChunk, OverfullChunk}

\* One turn of the loop of compile().
declare(ub) ==
  /\ phase = "compiling"
  /\ steps < MaxDeclarations
  /\ parser.current.type # "TOKEN_EOF"
  /\ LET called(m1) == Store(m1) /\ phase' = IF Ok(m1) THEN "compiling" ELSE m1.status
     IN  called(Call("declaration", Machine(ub), 0))
  /\ result' = "NONE"
  /\ lines' = lines
  /\ steps' = steps + 1

\* The end of compile(): result is the value it returns.
end_compile(ub) ==
  /\ phase = "compiling"
  /\ parser.current.type = "TOKEN_EOF"
  /\ LET ended(m1) ==
           /\ Store(m1)
           /\ phase' = IF Ok(m1) THEN "compiled" ELSE m1.status
           /\ result' = IF m1.parser.had_error THEN "FALSE" ELSE "TRUE"
     IN  ended(end_compiler(Machine(ub)))
  /\ lines' = lines
  /\ steps' = steps

NextConstants ==
  \/ \E text \in ConstantTexts, ub \in UBChoices : begin_compile(text, ub)
  \/ \E ub \in UBChoices : declare(ub)
  \/ \E ub \in UBChoices : end_compile(ub)

SpecConstants == Init /\ [][NextConstants]_vars

(***************************************************************************)
(* scanner.c and keywords.c taken by themselves: a text is made the        *)
(* current source as the REPL does and next_token() is called until it     *)
(* returns TOKEN_EOF, or find_keyword() is called on a word.  The token    *)
(* returned is kept in parser.current, where advance() keeps it, and the   *)
(* value find_keyword returns in result.                                   *)
(***************************************************************************)
MaxTokens == 4

\* The spellings of the keyword table.
Spellings == {keywords[i].word : i \in 1..NUM_KEYWORDS}

\* The words the specification reserves besides them.
Reserved == {<<"p","r","i","n","t">>, <<"v","a","r">>}

\* Words that are no keyword: the empty word, a word longer than 6
\* characters, another case, a misspelling, words with the hash of a keyword
\* (big: if, ot: unless) and words that begin with a keyword (doing, and
\* doiqt, which has the hash of do as well).
Strangers ==
  {<<>>, <<"r","e","t","u","r","n","s">>, <<"B","e","g","i","n">>, <<"w","h","i","l">>,
   <<"b","i","g">>, <<"o","t">>, <<"d","o","i","n","g">>, <<"d","o","i","q","t">>,
   <<"a">>, <<"x">>}

Words == Spellings \cup Reserved \cup Strangers

\* "ab"  and  ""  and  "a" ""
Quoted == <<"\"", "a", "b", "\"">>

Empty == <<"\"", "\"">>

QuotedEmpty == <<"\"", "a", "\"", " ", "\"", "\"">>

\* The texts given while a buffer is active.
Imported == {<<"a">>, Quoted, <<"d", "o", " ", "e", "n", "d">>}

ScanTexts == (Words \ {<<>>}) \cup {Quoted, Empty, QuotedEmpty} \cup Imported

\* The buffers given to the scanner one after the other.
MaxBuffers == 2

\* add_source_line(text): source_create and make_current, whose branch for a
\* scanner that already has a buffer is empty, so that the new source takes
\* the place of the current one.  The call comes before the first token or
\* while the current buffer has not returned its TOKEN_EOF; steps counts the
\* calls of next_token() since the first buffer.
add_source_line(text) ==
  /\ \/ phase = "idle" /\ lines = <<>>
     \/ phase = "scanning" /\ parser.current.type # "TOKEN_EOF" /\ text \in Imported
  /\ Len(lines) < MaxBuffers
  /\ scanner' = [source |-> source_create(text), destroyed |-> FALSE]
  /\ lines' = Append(lines, text)
  /\ phase' = "scanning"
  /\ steps' = IF lines = <<>> THEN 0 ELSE steps
  /\ UNCHANGED <<vm, heap, ents, freed, parser, compiler, marks, defined, out, errs, result>>

\* One call of next_token(); string_copy aborts the process through die().
scan_next ==
  /\ phase = "scanning"
  /\ steps < MaxTokens
  /\ parser.current.type # "TOKEN_EOF"
  /\ LET got(r) ==
           /\ scanner' = [scanner EXCEPT !.source = r.source]
           /\ parser' = [parser EXCEPT !.previous = parser.current, !.current = r.token]
           /\ phase' = IF r.token.lexeme = DIE THEN "abort" ELSE "scanning"
     IN  got(next_token(scanner.source))
  /\ steps' = steps + 1
  /\ UNCHANGED <<vm, heap, ents, freed, compiler, marks, defined, out, errs, result, lines>>

\* One call of find_keyword(word).
lookup(word) ==
  /\ phase = "idle"
  /\ lines = <<>>
  /\ result' = find_keyword(word)
  /\ lines' = <<word>>
  /\ phase' = "looked"
  /\ UNCHANGED <<vm, heap, ents, freed, parser, scanner, compiler, marks, defined, out, errs,
                 steps>>

NextScanner ==
  \/ \E text \in ScanTexts : add_source_line(text)
  \/ scan_next
  \/ \E word \in Words : lookup(word)

SpecScanner == Init /\ [][NextScanner]_vars

(***************************************************************************)
(* table.c taken by itself.  The program calls neither table_delete nor    *)
(* table_merge, so the functions of the table are applied here to the two  *)
(* tables of the VM with integer keys: a key is allocated as the VM        *)
(* allocates a constant, and an entry maps the key to itself as the        *)
(* entries of vm.strings do.  With 8 buckets the keys 1 and 9 share a      *)
(* bucket and 2 has its own.                                               *)
(***************************************************************************)
MaxOps == 4

Keys == {1, 2, 9}

Tables == {"globals", "strings"}

insert(tn, k, ub) ==
  /\ phase = "idle"
  /\ steps < MaxOps
  /\ LET key(m1) == table_insert(m1, tn, m1.ret, m1.ret)
         done(m1) == Store(m1) /\ phase' = IF Ok(m1) THEN "idle" ELSE m1.status
     IN  done(key(create_integer(Machine(ub), k)))
  /\ result' = "NONE"
  /\ lines' = lines
  /\ steps' = steps + 1

delete(tn, k, ub) ==
  /\ phase = "idle"
  /\ steps < MaxOps
  /\ LET key(m1) == table_delete(m1, tn, m1.ret)
         done(m1) == Store(m1) /\ phase' = IF Ok(m1) THEN "idle" ELSE m1.status
     IN  done(key(create_integer(Machine(ub), k)))
  /\ result' = "NONE"
  /\ lines' = lines
  /\ steps' = steps + 1

merge(from, to, ub) ==
  /\ phase = "idle"
  /\ steps < MaxOps
  /\ from # to
  /\ LET done(m1) == Store(m1) /\ phase' = IF Ok(m1) THEN "idle" ELSE m1.status
     IN  done(table_merge(Machine(ub), from, to))
  /\ result' = "NONE"
  /\ lines' = lines
  /\ steps' = steps + 1

NextTable ==
  \/ \E tn \in Tables, k \in Keys, ub \in UBChoices : insert(tn, k, ub)
  \/ \E tn \in Tables, k \in Keys, ub \in UBChoices : delete(tn, k, ub)
  \/ \E from \in Tables, to \in Tables, ub \in UBChoices : merge(from, to, ub)

SpecTable == Init /\ [][NextTable]_vars

(***************************************************************************)
(* vm.c on lines whose operands fail the checks of run(): the REPL reads   *)
(* lines that compile and whose code applies an operator to an operand of  *)
(* the wrong type.                                                         *)
(***************************************************************************)
\* -true; 1;
SrcNegate ==
  <<"-", "t", "r", "u", "e", ";", " ", "1", ";">>

\* nil * 2; 1;
SrcArith ==
  <<"n", "i", "l", " ", "*", " ", "2", ";", " ", "1", ";">>

\* 1 > nil;
SrcCompare ==
  <<"1", " ", ">", " ", "n", "i", "l", ";">>

\* 7 % 1.5;
SrcMod ==
  <<"7", " ", "%", " ", "1", ".", "5", ";">>

\* "a" + 1;
SrcMixed ==
  <<"\"", "a", "\"", " ", "+", " ", "1", ";">>

\* 2 - -3;
SrcMinus ==
  <<"2", " ", "-", " ", "-", "3", ";">>

Faulty == {SrcNegate, SrcArith, SrcCompare, SrcMod, SrcMixed, SrcMinus}

NextOperands ==
  \/ \E line \in Faulty, ub \in UBChoices : interpret(line, ub)
  \/ \E ub \in UBChoices : run(ub)

SpecOperands == Init /\ [][NextOperands]_vars

(***************************************************************************)
(* compiler.c on statements that jump.  The lines with if, while, & and |  *)
(* are interpreted as the REPL does.  A jump over more than 65535 bytes    *)
(* needs a statement too long to be compiled one token at a time, so       *)
(* if_statement() and while_statement() are also driven on the statements  *)
(*   if (1) -...-1;     and     while (1) -...-1;                          *)
(* with n minus signs, taking the n OP_NEGATE that unary() emits after     *)
(* the operand in one step.                                                *)
(***************************************************************************)
\* The numbers of minus signs: few, and around the two limits: the loop of
\* the while statement is 12 bytes longer than n and the forward jump of
\* either statement 7 bytes.
MaxShort == 40

Near == 2

Bodies == (0..MaxShort) \cup ((UINT16_MAX - 12 - Near + 1)..(UINT16_MAX - 7 + Near))

Jumping == {SrcIf, SrcLoop, SrcSpin}

\* number(): the constant 1 and its OP_CONSTANT.
emit_one(m) == emit_created(create_integer(m, 1))

\* The n OP_NEGATE emitted by the n calls of unary() as they return.
emit_negates(m, n) ==
  [m EXCEPT !.chunk.code = @ \o [i \in 1..n |-> Op("OP_NEGATE")],
            !.chunk.lines = @ \o [i \in 1..n |-> m.parser.previous.line]]

\* expression_statement() on -...-1; with the expression and its OP_POP.
negated_one(m, n) == emit_byte(emit_negates(emit_one(m), n), Op("OP_POP"))

\* compile() has returned: the chunk and the parser are left as they are.
Compiled(m, n) ==
  /\ Store(m)
  /\ phase' = "compiled"
  /\ result' = IF m.parser.had_error THEN "FALSE" ELSE "TRUE"
  /\ steps' = n
  /\ lines' = lines

\* compile() of  if (1) -...-1;  as if_statement() emits it.
compile_if(n) ==
  /\ phase = "idle"
  /\ lines = <<>>
  /\ LET else_jump == emit_jump(emit_one([Machine("benign") EXCEPT !.chunk = init_chunk]),
                                Op("OP_JUMP_IF_FALSE"))
         then == negated_one(emit_byte(else_jump, Op("OP_POP")), n)
         end_jump == emit_jump(then, Op("OP_JUMP"))
         else == emit_byte(patch_jump(end_jump, else_jump.ret), Op("OP_POP"))
     IN  Compiled(end_compiler(patch_jump(else, end_jump.ret)), n)

\* compile() of  while (1) -...-1;  as while_statement() emits it.
compile_while(n) ==
  /\ phase = "idle"
  /\ lines = <<>>
  /\ LET loop_start == 0
         exit_jump == emit_jump(emit_one([Machine("benign") EXCEPT !.chunk = init_chunk]),
                                Op("OP_JUMP_IF_FALSE"))
         body == negated_one(emit_byte(exit_jump, Op("OP_POP")), n)
         looped == emit_loop(body, loop_start)
     IN  Compiled(end_compiler(emit_byte(patch_jump(looped, exit_jump.ret), Op("OP_POP"))),
                  n)

NextJumps ==
  \/ \E line \in Jumping, ub \in UBChoices : interpret(line, ub)
  \/ \E ub \in UBChoices : run(ub)
  \/ \E n \in Bodies : compile_if(n)
  \/ \E n \in Bodies : compile_while(n)

SpecJumps == Init /\ [][NextJumps]_vars

(***************************************************************************)
(* The locals at run time.  As above the compiler is driven one call at a  *)
(* time on a text that leaves out the word var: begin_scope(), end_scope(), *)
(* declaration() on a statement, and declaration() past a matched          *)
(* TOKEN_VAR.  When the text is used up and every scope is ended, as       *)
(* block() ends them, interpret() goes on to run() the chunk.              *)
(***************************************************************************)
\* a = 1; b = a + 1; a = b;
LocalsSet ==
  <<"a", " ", "=", " ", "1", ";", " ", "b", " ", "=", " ", "a", " ", "+", " ", "1", ";",
    " ", "a", " ", "=", " ", "b", ";">>

\* x; x = 3; x;
LocalsNil ==
  <<"x", ";", " ", "x", " ", "=", " ", "3", ";", " ", "x", ";">>

LocalTexts == {LocalsSet, LocalsNil}

LocalCalls == {"begin_scope", "end_scope", "declaration"}

\* declaration() where match(TOKEN_VAR) has succeeded.
declare_local(ub) ==
  /\ phase = "compiling"
  /\ steps < MaxCalls
  /\ LET called(m1) == Store(m1) /\ phase' = IF Ok(m1) THEN "compiling" ELSE m1.status
     IN  called(recover(Mark(var_declaration(Mark(Machine(ub), 0)), 0)))
  /\ result' = "NONE"
  /\ lines' = lines
  /\ steps' = steps + 1

\* interpret() after a compile() that returned true: vm.ip is set to the
\* first byte of the chunk and run() is entered.
start_run ==
  /\ phase = "compiled"
  /\ result = "TRUE"
  /\ compiler.scope_depth = 0
  /\ vm' = [vm EXCEPT !.ip = 1]
  /\ phase' = "running"
  /\ result' = "NONE"
  /\ steps' = 0
  /\ UNCHANGED <<heap, ents, freed, parser, scanner, compiler, marks, defined, out, errs,
                 lines>>

NextLocals ==
  \/ \E text \in LocalTexts, ub \in UBChoices : begin_compile(text, ub)
  \/ \E fn \in LocalCalls, ub \in UBChoices : call(fn, ub)
  \/ \E ub \in UBChoices : declare_local(ub)
  \/ \E ub \in UBChoices : end_compile(ub)
  \/ start_run
  \/ \E ub \in UBChoices : run(ub)

SpecLocals == Init /\ [][NextLocals]_vars

(***************************************************************************)
(* table.c while one table grows: table_insert is called on vm.globals     *)
(* until the table of 8 buckets is resized to 16.  The keys 1 and 9 share  *)
(* a bucket of the 8 and have buckets of their own among the 16.           *)
(***************************************************************************)
MaxInserts == 7

GrowKeys == {1, 2, 3, 9}

\* table_insert(vm.globals, k, k) with a fresh Integer k.
grow(k, ub) ==
  /\ phase = "idle"
  /\ steps < MaxInserts
  /\ LET key(m1) == table_insert(m1, "globals", m1.ret, m1.ret)
         done(m1) == Store(m1) /\ phase' = IF Ok(m1) THEN "idle" ELSE m1.status
     IN  done(key(create_integer(Machine(ub), k)))
  /\ result' = "NONE"
  /\ lines' = lines
  /\ steps' = steps + 1

NextGrow == \E k \in GrowKeys, ub \in UBChoices : grow(k, ub)

SpecGrow == Init /\ [][NextGrow]_vars

(***************************************************************************)
(* compile() on lines with errors, one declaration() per step as above.    *)
(* A line is three pieces, each a statement or a faulty one.               *)
(***************************************************************************)
\* 1;
Clean == <<"1", ";", " ">>

\* 1 + ;      the operand is missing, and then the ; of the statement
Dangling == <<"1", " ", "+", " ", ";", " ">>

\* (1 2;      the ) is missing, and then the ;
Unclosed == <<"(", "1", " ", "2", ";", " ">>

\* 1 2 3      the ; is missing, and no ; follows
Junk == <<"1", " ", "2", " ", "3", " ">>

\* if (1) 2;
IfClean == <<"i", "f", " ", "(", "1", ")", " ", "2", ";", " ">>

Pieces == {Clean, Dangling, Unclosed, Junk, IfClean}

PanicTexts == {a \o b \o c : a, b, c \in Pieces}

NextPanic ==
  \/ \E text \in PanicTexts, ub \in UBChoices : begin_compile(text, ub)
  \/ \E ub \in UBChoices : declare(ub)
  \/ \E ub \in UBChoices : end_compile(ub)

SpecPanic == Init /\ [][NextPanic]_vars

(***************************************************************************)
(* vm.c on lines that span several source lines: the REPL hands            *)
(* add_source_line a text with line feeds in it, the compiler records for  *)
(* each byte the line of the token before it, and run() fails on an        *)
(* instruction whose bytes and whose successor lie on different lines.     *)
(***************************************************************************)
\* a
\* + 1;
SrcGetSplit ==
  <<"a", "\n", "+", " ", "1", ";">>

\* -true
\* + 1;
SrcNegateSplit ==
  <<"-", "t", "r", "u", "e", "\n", "+", " ", "1", ";">>

\* nil + 1
\* - 2;
SrcAddSplit ==
  <<"n", "i", "l", " ", "+", " ", "1", "\n", "-", " ", "2", ";">>

\* 1 +
\* nil; 2;
SrcAddLate ==
  <<"1", " ", "+", "\n", "n", "i", "l", ";", " ", "2", ";">>

\* 1;
\* a;
SrcGetSecond ==
  <<"1", ";", "\n", "a", ";">>

Lined == {SrcGetSplit, SrcNegateSplit, SrcAddSplit, SrcAddLate, SrcGetSecond, SrcGetA}

NextLines ==
  \/ \E line \in Lined, ub \in UBChoices : interpret(line, ub)
  \/ \E ub \in UBChoices : run(ub)

SpecLines == Init /\ [][NextLines]_vars

(***************************************************************************)
(* compiler.c and vm.c on lines with & and |: each line is one expression  *)
(* statement whose right operand would leave a trace if it were executed,  *)
(* a runtime error for -nil and a global for an assignment.                *)
(***************************************************************************)
\* false & -nil;
SrcAndFalse ==
  <<"f", "a", "l", "s", "e", " ", "&", " ", "-", "n", "i", "l", ";">>

\* nil & (x = 1);
SrcAndNil ==
  <<"n", "i", "l", " ", "&", " ", "(", "x", " ", "=", " ", "1", ")", ";">>

\* 1 & 2;
SrcAndBoth ==
  <<"1", " ", "&", " ", "2", ";">>

\* 0 & (a = 2);
SrcAndSets ==
  <<"0", " ", "&", " ", "(", "a", " ", "=", " ", "2", ")", ";">>

\* true | -nil;
SrcOrTrue ==
  <<"t", "r", "u", "e", " ", "|", " ", "-", "n", "i", "l", ";">>

\* 7 | (i = 2);
SrcOrSeven ==
  <<"7", " ", "|", " ", "(", "i", " ", "=", " ", "2", ")", ";">>

\* false | 3;
SrcOrBoth ==
  <<"f", "a", "l", "s", "e", " ", "|", " ", "3", ";">>

\* nil | false;
SrcOrNeither ==
  <<"n", "i", "l", " ", "|", " ", "f", "a", "l", "s", "e", ";">>

\* false & -nil | 4 & 5;
SrcAndOr ==
  <<"f", "a", "l", "s", "e", " ", "&", " ", "-", "n", "i", "l", " ", "|", " ", "4",
    " ", "&", " ", "5", ";">>

Circuits ==
  {SrcAndFalse, SrcAndNil, SrcAndBoth, SrcAndSets, SrcOrTrue, SrcOrSeven, SrcOrBoth,
   SrcOrNeither, SrcAndOr}

NextShort ==
  \/ \E line \in Circuits, ub \in UBChoices : interpret(line, ub)
  \/ \E ub \in UBChoices : run(ub)

SpecShort == Init /\ [][NextShort]_vars

(***************************************************************************)
(* compiler.c and scanner.c on lines that end early: the REPL hands every  *)
(* line it reads to add_source_line() and interpret(), the empty line and  *)
(* a line cut off inside a statement as well.  The lines hold numbers,     *)
(* operators and punctuation only, so that no string is interned while     *)
(* they are compiled.                                                      *)
(***************************************************************************)
\* 1;
SrcOne ==
  <<"1", ";">>

\* 1 + 2; 3;
SrcSum ==
  <<"1", " ", "+", " ", "2", ";", " ", "3", ";">>

\* 1
SrcNoSemicolon ==
  <<"1">>

\* { 1;
SrcOpenBlock ==
  <<"{", " ", "1", ";">>

\* (1
SrcOpenParen ==
  <<"(", "1">>

\* 1 +
SrcCutOperand ==
  <<"1", " ", "+">>

\* -
SrcCutUnary ==
  <<"-">>

\* The empty line and the blank line.
SrcEmpty == <<>>

SrcBlank ==
  <<" ", " ">>

\* The lines whose last token closes a statement, the lines that lack only
\* a closing token, and the lines that end where a token must follow.
Closed == {SrcOne, SrcSum}

Lacking == {SrcNoSemicolon, SrcOpenBlock, SrcOpenParen}

Cut == {SrcCutOperand, SrcCutUnary, SrcEmpty, SrcBlank}

NextBuffers ==
  \/ \E line \in Closed \cup Lacking \cup Cut, ub \in UBChoices : interpret(line, ub)
  \/ \E ub \in UBChoices : run(ub)

SpecBuffers == Init /\ [][NextBuffers]_vars

(***************************************************************************)
(* compiler.c on every short sequence of tokens: compile() is taken one    *)
(* declaration at a time on the texts made of up to MaxSymbols of the      *)
(* symbols  1 ( ) . + ;  separated by blanks.                              *)
(***************************************************************************)
MaxSymbols == 3

Symbols == {"1", "(", ")", ".", "+", ";"}

\* The text of a sequence of symbols, a blank behind each.
Spaced(symbols) ==
  [i \in 1..(2 * Len(symbols)) |-> IF i % 2 = 1 THEN symbols[(i + 1) \div 2] ELSE " "]

RuleTexts == {Spaced(s) : s \in UNION {[1..n -> Symbols] : n \in 1..MaxSymbols}}

\* The token types of token.h.
TokenTypes ==
  {"TOKEN_LEFT_PAREN", "TOKEN_RIGHT_PAREN", "TOKEN_LEFT_BRACE", "TOKEN_RIGHT_BRACE",
   "TOKEN_LEFT_BRACKET", "TOKEN_RIGHT_BRACKET", "TOKEN_PERCENT", "TOKEN_COMMA",
   "TOKEN_CARET", "TOKEN_DOT", "TOKEN_MINUS", "TOKEN_PLUS", "TOKEN_SEMICOLON",
   "TOKEN_SLASH", "TOKEN_STAR", "TOKEN_AND", "TOKEN_OR", "TOKEN_BANG",
   "TOKEN_BANG_EQUAL", "TOKEN_EQUAL", "TOKEN_EQUAL_EQUAL", "TOKEN_GREATER",
   "TOKEN_GREATER_EQUAL", "TOKEN_LESS", "TOKEN_LESS_EQUAL", "TOKEN_IDENTIFIER",
   "TOKEN_STRING", "TOKEN_INTEGER", "TOKEN_REAL", "TOKEN_BEGIN", "TOKEN_BREAK",
   "TOKEN_CASE", "TOKEN_CLASS", "TOKEN_DEF", "TOKEN_DO", "TOKEN_ELSE", "TOKEN_END",
   "TOKEN_ENSURE", "TOKEN_FALSE", "TOKEN_IF", "TOKEN_NEXT", "TOKEN_NIL", "TOKEN_PRINT",
   "TOKEN_RESCUE", "TOKEN_RETURN", "TOKEN_SUPER", "TOKEN_SWITCH", "TOKEN_THIS",
   "TOKEN_TRUE", "TOKEN_UNLESS", "TOKEN_UNTIL", "TOKEN_VAR", "TOKEN_WHILE",
   "TOKEN_ERROR", "TOKEN_EOF"}

NextRules ==
  \/ \E text \in RuleTexts, ub \in UBChoices : begin_compile(text, ub)
  \/ \E ub \in UBChoices : declare(ub)
  \/ \E ub \in UBChoices : end_compile(ub)

SpecRules == Init /\ [][NextRules]_vars

(***************************************************************************)
(* vm.c on lines that take a remainder: the REPL reads lines whose         *)
(* OP_MODULUS has two Integer operands, the right one zero or not.         *)
(***************************************************************************)
\* 7 % 0; 1;
SrcModZero ==
  <<"7", " ", "%", " ", "0", ";", " ", "1", ";">>

\* 0 % 0;
SrcModZeros ==
  <<"0", " ", "%", " ", "0", ";">>

\* 7 % (2 - 2);
SrcModDifference ==
  <<"7", " ", "%", " ", "(", "2", " ", "-", " ", "2", ")", ";">>

\* 7 % 2;
SrcModTwo ==
  <<"7", " ", "%", " ", "2", ";">>

\* -7 % 2;
SrcModNegative ==
  <<"-", "7", " ", "%", " ", "2", ";">>

\* 0 % 5;
SrcModOfZero ==
  <<"0", " ", "%", " ", "5", ";">>

Remainders ==
  {SrcModZero, SrcModZeros, SrcModDifference, SrcModTwo, SrcModNegative, SrcModOfZero,
   SrcMod}

NextModulo ==
  \/ \E line \in Remainders, ub \in UBChoices : interpret(line, ub)
  \/ \E ub \in UBChoices : run(ub)

SpecModulo == Init /\ [][NextModulo]_vars

(***************************************************************************)
(* compile() run to its end, one declaration at a time.  The texts are     *)
(* made of up to MaxPieces of the pieces below, which open and close       *)
(* blocks, end statements, start expressions and hold a character the      *)
(* scanner rejects.                                                        *)
(***************************************************************************)
MaxPieces == 3

EndPieces ==
  {<<"1", " ">>, <<";", " ">>, <<"{", " ">>, <<"}", " ">>, <<"d", "o", " ">>,
   <<"e", "n", "d", " ">>, <<"@", " ">>, <<"(", " ">>, <<"+", " ">>}

RECURSIVE Joined(_)
Joined(n) == IF n = 0 THEN {<<>>} ELSE {a \o b : a \in EndPieces, b \in Joined(n - 1)}

EndTexts == UNION {Joined(n) : n \in 1..MaxPieces}

NextEnds ==
  \/ \E text \in EndTexts, ub \in UBChoices : begin_compile(text, ub)
  \/ \E ub \in UBChoices : declare(ub)
  \/ \E ub \in UBChoices : end_compile(ub)

SpecEnds == Init /\ [][NextEnds]_vars

\* Once compile() has been started nothing but the process itself takes
\* its steps: it does not rest for ever in front of a turn of its loop or
\* of its end.  Each step of compile() changes steps or phase, which is
\* how the condition is written.
SpecEndsFair ==
  /\ SpecEnds
  /\ \A n \in 0..(MaxPieces + 1) : []<>~(phase = "compiling" /\ steps = n)

(***************************************************************************)
(* The REPL on lines whose compile reports an error after code has been    *)
(* emitted, next to lines that define globals and lines that run into a    *)
(* runtime error.                                                          *)
(***************************************************************************)
\* a = 2; 1 +;
SrcSetFail ==
  <<"a", " ", "=", " ", "2", ";", " ", "1", " ", "+", ";">>

\* var x = 3; )
SrcDefineFail ==
  <<"v", "a", "r", " ", "x", " ", "=", " ", "3", ";", " ", ")">>

\* print a; @
SrcPrintFail ==
  <<"p", "r", "i", "n", "t", " ", "a", ";", " ", "@">>

\* i = 2; { a = 3;
SrcBlockFail ==
  <<"i", " ", "=", " ", "2", ";", " ", "{", " ", "a", " ", "=", " ", "3", ";">>

Failing == {SrcSetFail, SrcDefineFail, SrcPrintFail, SrcBlockFail, SrcTargets, SrcUnterminated}

Passing == {SrcSetA1, SrcSetI, SrcVar, SrcPrint}

NextFails ==
  \/ \E line \in Failing \cup Passing, ub \in UBChoices : interpret(line, ub)
  \/ \E ub \in UBChoices : run(ub)

SpecFails == Init /\ [][NextFails]_vars

(***************************************************************************)
(* What the properties below read from a state.                            *)
(***************************************************************************)
\* The instruction run() executes next, and "NONE" when it is not running.
Instruction ==
  IF phase = "running" /\ vm.ip <= Len(vm.chunk.code)
       /\ vm.chunk.code[vm.ip] < Len(OpCodes)
    THEN OpCodes[vm.chunk.code[vm.ip] + 1]
    ELSE "NONE"

\* The characters of the name the one-byte operand of the instruction refers to.
OperandName == heap[vm.chunk.constants[vm.chunk.code[vm.ip + 1] + 1]].value

\* The object distance slots below the top of the operand stack.
Operand(distance) == heap[vm.stack[Len(vm.stack) - distance]]

\* The last line read and the last things written.
LastLine == lines[Len(lines)]

LastOut == out[Len(out)]

LastErr == errs[Len(errs)]

\* The identifiers the lines use.
Names == {<<"a">>, <<"i">>, <<"x">>}

\* The value bound to a name in vm.globals, 0 when the chain of its bucket
\* holds no entry for it.  The key is the interned string of the name.
Global(name) ==
  LET keys == {o \in 1..Len(heap) : heap[o].type = "OBJ_STRING" /\ heap[o].value = name}
      value(entry) == IF entry \in {0, WILD} THEN 0 ELSE ents[entry].value
  IN  IF keys = {} \/ vm.globals.entries = <<>> THEN 0
      ELSE value(table_find_entry(Machine("benign"), "globals", CHOOSE o \in keys : TRUE))

\* A numeric object whose value is zero.
IsZero(o) ==
  \/ o.type = "OBJ_INTEGER" /\ o.value = 0
  \/ o.type = "OBJ_REAL" /\ o.value.n = 0 /\ o.value.d # 0

\* The step taken did not end in undefined behaviour.
Survives == phase' \in {"running", "idle"}

(***************************************************************************)
(* C1.  Interpreting the line print 1 + 2 * 3; compiles without error,     *)
(* prints the Integer 7 and returns INTERPRET_OK: whenever the REPL is     *)
(* back at the prompt after that line, the result is INTERPRET_OK, no      *)
(* error was reported and the last thing printed is "-> 7".                *)
(* The keyword table has no entry for print, so the line is the expression *)
(* statement  print  followed by a token that is no semicolon.             *)
(***************************************************************************)
C1_PrintSeven ==
  (phase = "idle" /\ lines # <<>> /\ LastLine = SrcPrint)
    => /\ result = "INTERPRET_OK"
       /\ errs = <<>>
       /\ out # <<>> /\ LastOut = <<"-", ">", " ", "7">>

(***************************************************************************)
(* C2.  Interpreting  var i = 0; while (i < 3) { print i; i = i + 1; }     *)
(* prints 0, 1, 2 in that order and then returns INTERPRET_OK: when the    *)
(* REPL is back at the prompt after that first line, exactly those three   *)
(* lines were printed.                                                     *)
(***************************************************************************)
C2_WhileCountsToThree ==
  (phase = "idle" /\ lines = <<SrcWhile>>)
    => /\ result = "INTERPRET_OK"
       /\ out = << <<"-", ">", " ", "0">>, <<"-", ">", " ", "1">>, <<"-", ">", " ", "2">> >>

(***************************************************************************)
(* C3.  table_insert updates a key that is present: when OP_SET_GLOBAL or  *)
(* OP_DEFINE_GLOBAL runs for a name that table_search finds, the search    *)
(* for that name afterwards returns the value just stored, and the number  *)
(* of keys of the table is the same.                                       *)
(***************************************************************************)
C3_InsertUpdates ==
  [][\A name \in Names : \A value \in 1..Len(heap) :
       ( /\ Instruction \in {"OP_SET_GLOBAL", "OP_DEFINE_GLOBAL"}
         /\ OperandName = name
         /\ Global(name) # 0
         /\ vm.stack # <<>> /\ vm.stack[Len(vm.stack)] = value
         /\ Survives )
       => /\ Global(name)' = value
          /\ vm'.globals.count = vm.globals.count]_vars

(***************************************************************************)
(* C4.  OP_SET_GLOBAL for a name without a binding is a runtime error:     *)
(* the step makes interpret return INTERPRET_RUNTIME_ERROR and the name    *)
(* has no binding afterwards.                                              *)
(***************************************************************************)
C4_SetUndefinedFails ==
  [][\A name \in Names :
       ( /\ Instruction = "OP_SET_GLOBAL"
         /\ OperandName = name
         /\ Global(name) = 0
         /\ Survives )
       => /\ result' = "INTERPRET_RUNTIME_ERROR"
          /\ Global(name)' = 0]_vars

C6_VarBindsNil ==
  (phase = "idle" /\ lines = <<SrcVar>>)
    => /\ result = "INTERPRET_OK"
       /\ Global(<<"x">>) # 0
       /\ heap[Global(<<"x">>)].type = "OBJ_NIL"
       /\ vm.stack = <<>>

(***************************************************************************)
(* C7.  In a program that compiled without error every statement leaves    *)
(* the operand stack at the height it had before it, and an expression     *)
(* leaves one extra value, on every path: whenever run() is at an offset   *)
(* the compiler marked as the start or the end of a statement, or as the   *)
(* end of the expression of a statement, the stack has the height noted    *)
(* in the mark, and it is empty when OP_RETURN is the next instruction.    *)
(***************************************************************************)
C7_StackBalanced ==
  phase = "running"
    => /\ \A k \in marks : k.at + 1 = vm.ip => Len(vm.stack) = k.height
       /\ Instruction = "OP_RETURN" => vm.stack = <<>>

\* C7 happens: the final OP_RETURN of the line with both loops is reached
\* with an empty stack, after the short circuits and the loop exits.
C7_Witness ==
  /\ phase = "running"
  /\ LastLine = SrcLoop
  /\ Instruction = "OP_RETURN"
  /\ vm.stack = <<>>
  /\ [at |-> vm.ip - 1, height |-> 0] \in marks

C9_DivideByZero ==
  [][( /\ Instruction = "OP_DIVIDE"
       /\ Len(vm.stack) >= 2
       /\ Operand(0).type \in {"OBJ_INTEGER", "OBJ_REAL"}
       /\ Operand(1).type \in {"OBJ_INTEGER", "OBJ_REAL"}
       /\ IsZero(Operand(0))
       /\ Survives )
     => /\ result' = "INTERPRET_RUNTIME_ERROR"
        /\ errs' # errs
        /\ LastErr'.message = "Attempt to divide by zero."
        /\ Len(vm'.stack) <= Len(vm.stack)]_vars

(***************************************************************************)
(* C10.  OP_POWER on two Integer operands pushes a value tagged Real:      *)
(* after the step the top of the stack is an OBJ_REAL object.              *)
(***************************************************************************)
C10_PowerIsReal ==
  [][( /\ Instruction = "OP_POWER"
       /\ Len(vm.stack) >= 2
       /\ Operand(0).type = "OBJ_INTEGER"
       /\ Operand(1).type = "OBJ_INTEGER"
       /\ Survives )
     => /\ phase' = "running"
        /\ Len(vm'.stack) = Len(vm.stack) - 1
        /\ Operand(0)'.type = "OBJ_REAL"]_vars

\* A numeric object, Integer or Real, with the whole value n.
NumberIs(o, n) ==
  \/ o.type = "OBJ_INTEGER" /\ o.value = n
  \/ o.type = "OBJ_REAL" /\ o.value = Real(n, 1)

(***************************************************************************)
(* C11.  The operator ^ is right-associative and the other binary          *)
(* operators are left-associative: in the line  2 ^ 3 ^ 2; 7 - 2 - 1;      *)
(* the value the first statement pops is 2 ^ (3 ^ 2) = 512 and the value   *)
(* the second pops is (7 - 2) - 1 = 4.  Each statement is eight bytes of   *)
(* operands and operators followed by its OP_POP.                          *)
(***************************************************************************)
C11_Associativity ==
  (phase = "running" /\ LastLine = SrcAssoc /\ Instruction = "OP_POP" /\ vm.stack # <<>>)
    => /\ vm.ip = 9 => NumberIs(Operand(0), 512)
       /\ vm.ip = 18 => NumberIs(Operand(0), 4)

(***************************************************************************)
(* C12.  Interpreting                                                      *)
(*   var a = 10; { var a = a + 1; print a; } print a;                      *)
(* compiles without error and prints 11 then 10: when the REPL is back at  *)
(* the prompt after that first line, the result is INTERPRET_OK and those  *)
(* two lines were printed.                                                 *)
(***************************************************************************)
C12_InnerFromOuter ==
  (phase = "idle" /\ lines = <<SrcScope>>)
    => /\ result = "INTERPRET_OK"
       /\ errs = <<>>
       /\ out = << <<"-", ">", " ", "1", "1">>, <<"-", ">", " ", "1", "0">> >>

\* A call of var_declaration() that found a name has added a local in a
\* scope below the global one.
DeclaresLocal ==
  /\ phase = "compiling" /\ phase' = "compiling"
  /\ compiler.scope_depth > 0
  /\ parser.current.type = "TOKEN_IDENTIFIER"
  /\ steps' = steps + 1
  /\ Len(compiler'.locals) = Len(compiler.locals) + 1

(***************************************************************************)
(* C13.  A local that is declared but not yet initialized is never read:   *)
(* a declaration in a block whose initializer names the variable being     *)
(* declared (both declarations of the text  a = a; b = b + 1;) reports     *)
(* "Connot read local variable in its own initializer." and sets           *)
(* had_error, so compile() returns false and the chunk is not run; an      *)
(* initializer that names a local defined before (b = a;) reports nothing. *)
(***************************************************************************)
C13_OwnInitializer ==
  [][DeclaresLocal
       => /\ lines = <<DeclOwn>>
             => /\ parser'.had_error
                /\ Len(errs') = Len(errs) + 1
                /\ LastErr'.message = "Connot read local variable in its own initializer."
                /\ LastErr'.type = "TOKEN_IDENTIFIER"
          /\ (lines = <<DeclTwice>> /\ parser.current.lexeme = <<"b">>)
             => errs' = errs /\ parser'.had_error = parser.had_error]_vars

\* C13 happens: a declaration in a block has read its own name and the
\* error is reported.
C13_Witness ==
  /\ phase = "compiling"
  /\ lines = <<DeclOwn>>
  /\ compiler.scope_depth > 0
  /\ Len(compiler.locals) = 1
  /\ Len(errs) = 1
  /\ LastErr.message = "Connot read local variable in its own initializer."
  /\ parser.had_error

\* The local names of a depth, and the locals that are twins: two locals of
\* equal depth with the same name.
LocalsNamed(name, depths) ==
  {i \in 1..Len(compiler.locals) :
     compiler.locals[i].name.lexeme = name /\ compiler.locals[i].depth \in depths}

Twins ==
  {pair \in (1..Len(compiler.locals)) \X (1..Len(compiler.locals)) :
     /\ pair[1] < pair[2]
     /\ compiler.locals[pair[1]].depth = compiler.locals[pair[2]].depth
     /\ compiler.locals[pair[1]].name.lexeme = compiler.locals[pair[2]].name.lexeme}

\* The two cases of declaring a local: the name is that of a local of the
\* same scope, which is the error; or it is only that of locals of enclosing
\* scopes, which is accepted.
DeclarationChecked ==
  \A name \in {<<"a">>, <<"b">>} :
    (DeclaresLocal /\ lines = <<DeclTwice>> /\ parser.current.lexeme = name)
      => /\ LocalsNamed(name, {compiler.scope_depth}) # {}
            => /\ parser'.had_error
               /\ Len(errs') = Len(errs) + 1
               /\ LastErr'.message
                    = "Variable with this name already declared in this scope."
         /\ LocalsNamed(name, {compiler.scope_depth}) = {}
            => /\ errs' = errs
               /\ compiler'.locals[Len(compiler'.locals)].name.lexeme = name
               /\ compiler'.locals[Len(compiler'.locals)].depth = compiler.scope_depth

StringObjects == {o \in 1..Len(heap) : heap[o].type = "OBJ_STRING"}

(***************************************************************************)
(* C15.  Strings are interned: whatever copy_string and take_string calls  *)
(* have been made, no two distinct ObjectStrings hold equal bytes, so two  *)
(* calls return the same ObjectString exactly when their bytes are equal.  *)
(***************************************************************************)
C15_Interned ==
  \A o1 \in StringObjects : \A o2 \in StringObjects :
    heap[o1].value = heap[o2].value => o1 = o2

\* The objects met on the walk of the object list from object, in order.
RECURSIVE ObjectList(_, _)
ObjectList(object, fuel) ==
  IF object = 0 \/ fuel = 0 THEN <<>>
  ELSE <<object>> \o ObjectList(heap[object].next, fuel - 1)

\* Every object allocated occurs exactly once in the sequence.
EachOnce(objects) ==
  /\ Len(objects) = Len(heap)
  /\ \A o \in 1..Len(heap) : \E i \in 1..Len(objects) : objects[i] = o

\* vm_free has returned.
Exited == result = "EXIT" /\ phase = "exited"

\* Up to the call of vm_free every object is once in the object list, and
\* a vm_free that returns has released every object once.
ListedThenReleased ==
  /\ result # "EXIT" => EachOnce(ObjectList(vm.objects, Len(heap) + 1)) /\ freed = <<>>
  /\ Exited => EachOnce(freed)

(***************************************************************************)
(* C16.  Every object allocated between vm_init and vm_free is exactly     *)
(* once in the object list of the VM, and once vm_free has been called     *)
(* every such object has been released exactly once.                       *)
(***************************************************************************)
C16_ReleasedOnce ==
  /\ result # "EXIT" => EachOnce(ObjectList(vm.objects, Len(heap) + 1)) /\ freed = <<>>
  /\ result = "EXIT" => EachOnce(freed)

\* What table_search returns for the integer key k in the table tn: the
\* value, 0 for NULL, and WILD when the search leaves the entries.
Lookup(tn, k) ==
  LET searched(m) == IF Ok(m) THEN m.ret ELSE WILD
      search(m) == searched(table_search(m, tn, m.ret))
  IN  search(create_integer(Machine("benign"), k))

\* The step is a call of table_delete that returned.
Deleted(tn, k) == phase' = "idle" /\ \E ub \in UBChoices : delete(tn, k, ub)

(***************************************************************************)
(* C17.  table_delete(table, k) removes k and nothing else: afterwards a   *)
(* search for k returns NULL, the search for every other key returns what  *)
(* it returned before, the other table is as it was, and deleting a key    *)
(* that is not in the table changes nothing.                               *)
(***************************************************************************)
C17_DeleteOnlyKey ==
  [][\A tn \in Tables : \A k \in Keys :
       Deleted(tn, k)
         => /\ Lookup(tn, k)' = 0
            /\ \A j \in Keys \ {k} : Lookup(tn, j)' = Lookup(tn, j)
            /\ \A other \in Tables \ {tn} : vm'[other] = vm[other]
            /\ Lookup(tn, k) = 0 => vm'[tn] = vm[tn] /\ ents' = ents]_vars

\* The step is a call of table_merge.
Merged(from, to) == \E ub \in UBChoices : merge(from, to, ub)

\* What a merge that returns leaves behind: every key of from is found in
\* to, from is empty, to is what the contents of the two tables determine,
\* and a merge from a table emptied by an earlier merge leaves to as it was.
MergeMoves(from, to) ==
  /\ \A k \in Keys : Lookup(from, k) \notin {0, WILD} => Lookup(to, k)' \notin {0, WILD}
  /\ vm'[from] = table_init
  /\ vm'[to] = table_merge(Machine("benign"), from, to)[to]
  /\ vm[from] = table_init => vm'[to] = vm[to]

\* The merges that return do what the claim says.
MergeReturned ==
  [][\A from \in Tables : \A to \in Tables \ {from} :
       (Merged(from, to) /\ phase' = "idle") => MergeMoves(from, to)]_vars

(***************************************************************************)
(* C18.  table_merge(from, to) is deterministic and idempotent: it returns *)
(* with every key of from searchable in to and with to depending only on   *)
(* the contents of the two tables, and the same merge made a second time   *)
(* leaves to unchanged.                                                    *)
(***************************************************************************)
C18_MergeIdempotent ==
  [][\A from \in Tables : \A to \in Tables \ {from} :
       Merged(from, to) => phase' = "idle" /\ MergeMoves(from, to)]_vars

\* The constants of the chunk under compilation, and the operand of the
\* OP_CONSTANT instruction of statement k, from 0, of a text of
\* ConstantTexts: each statement is OP_CONSTANT, operand, OP_POP.
Constants == vm.chunk.constants

ConstantOperand(k) == vm.chunk.code[3 * k + 2]

TooMany == "Too many constants in one chunk."

(***************************************************************************)
(* C19.  Adding the 257th constant to a chunk reports "Too many constants  *)
(* in one chunk." and makes compile return false; as long as no error has  *)
(* been reported the operand of every OP_CONSTANT emitted is the index of  *)
(* its constant.                                                           *)
(***************************************************************************)
C19_ConstantIndex ==
  (lines # <<>> /\ LastLine \in ConstantTexts)
    => /\ Len(Constants) > UINT8_MAX + 1
          => parser.had_error /\ \E i \in 1..Len(errs) : errs[i].message = TooMany
       /\ (phase = "compiled" /\ Len(Constants) > UINT8_MAX + 1) => result = "FALSE"
       /\ (phase = "compiled" /\ Len(Constants) <= UINT8_MAX + 1) => result = "TRUE"
       /\ ~parser.had_error
          => \A k \in 0..(Len(Constants) - 1) :
               /\ vm.chunk.code[3 * k + 1] = Op("OP_CONSTANT")
               /\ ConstantOperand(k) = k
               /\ heap[Constants[ConstantOperand(k) + 1]].value = Literal(k)

\* C19 happens: the text with 258 constants has been compiled, the 257th
\* was reported and compile returned false.
C19_Witness ==
  /\ phase = "compiled"
  /\ LastLine = OverfullChunk
  /\ Len(Constants) = UINT8_MAX + 3
  /\ result = "FALSE"
  /\ errs # <<>> /\ errs[1].message = TooMany

\* The step is interpret() of the line, and it returned or went on to run.
Interprets(line) == lines' = Append(lines, line) /\ Survives

InvalidTarget == "Invalid assignment target."

(***************************************************************************)
(* C20.  A = after an expression that is not a variable reference, as in   *)
(* 1 = 2;  and  a * i = x;, is reported as "Invalid assignment target."    *)
(* at the = and makes interpret return INTERPRET_COMPILE_ERROR; a = right  *)
(* after a variable reference at assignment precedence, as in  a = 1;,     *)
(* compiles without error to the value followed by OP_SET_GLOBAL with the  *)
(* constant of the name.                                                   *)
(***************************************************************************)
C20_AssignmentTarget ==
  [][/\ Interprets(SrcTargets)
          => /\ phase' = "idle"
             /\ result' = "INTERPRET_COMPILE_ERROR"
             /\ Len(errs') = Len(errs) + 2
             /\ \A i \in {Len(errs) + 1, Len(errs) + 2} :
                  errs'[i].message = InvalidTarget /\ errs'[i].type = "TOKEN_EQUAL"
             /\ errs'[Len(errs) + 1].col < errs'[Len(errs) + 2].col
             /\ out' = out
     /\ Interprets(SrcSetA1)
          => /\ phase' = "running"
             /\ errs' = errs
             /\ vm'.chunk.code = <<Op("OP_CONSTANT"), 1, Op("OP_SET_GLOBAL"), 0,
                                   Op("OP_POP"), Op("OP_RETURN")>>
             /\ heap'[vm'.chunk.constants[1]].value = <<"a">>
             /\ heap'[vm'.chunk.constants[2]].value = 1]_vars

\* C20 happens: a was assigned by the first line and the second line was
\* answered with the two errors.
C20_Witness ==
  /\ lines = <<SrcSetA1, SrcTargets>>
  /\ phase = "idle"
  /\ result = "INTERPRET_COMPILE_ERROR"
  /\ Len(errs) = 2
  /\ errs[1].message = InvalidTarget /\ errs[2].message = InvalidTarget
  /\ Global(<<"a">>) # 0

\* The step is interpret() of the line.
Interpreted(line) == lines' = Append(lines, line)

\* What the claim says of the line with the unterminated string: one error,
\* the scanner's, the end of the buffer behind it, and the compile failed.
UnterminatedReported ==
  /\ Len(errs') = Len(errs) + 1
  /\ LastErr'.type = "TOKEN_ERROR"
  /\ LastErr'.message = "Unterminated string."
  /\ parser'.current.type = "TOKEN_EOF"
  /\ parser'.had_error
  /\ phase' = "idle"
  /\ result' = "INTERPRET_COMPILE_ERROR"
  /\ out' = out

\* The calls that return do as the claim says.
UnterminatedSurvived ==
  [][(Interpreted(SrcUnterminated) /\ Survives) => UnterminatedReported]_vars

(***************************************************************************)
(* C21.  A line whose string literal has no closing quote makes next_token *)
(* return a TOKEN_ERROR with the message "Unterminated string.", which the *)
(* compiler reports; the next token is TOKEN_EOF, compile returns false    *)
(* and interpret returns INTERPRET_COMPILE_ERROR.                          *)
(***************************************************************************)
C21_Unterminated ==
  [][Interpreted(SrcUnterminated) => UnterminatedReported]_vars

\* The tokens returned in a state of the scanner, and the token before.
Token == parser.current

(***************************************************************************)
(* C22.  For a terminated string literal, the empty literal included,      *)
(* next_token returns normally, with a TOKEN_STRING whose lexeme is the    *)
(* characters between the quotes.                                          *)
(***************************************************************************)
C22_StringLexeme ==
  [][scan_next
       => /\ (lines = <<Quoted>> /\ steps = 0)
             => phase' = "scanning" /\ Token'.type = "TOKEN_STRING"
                /\ Token'.lexeme = <<"a", "b">>
          /\ (lines = <<Empty>> /\ steps = 0)
             => phase' = "scanning" /\ Token'.type = "TOKEN_STRING"
                /\ Token'.lexeme = <<>>
          /\ (lines = <<QuotedEmpty>> /\ steps = 0)
             => phase' = "scanning" /\ Token'.type = "TOKEN_STRING"
                /\ Token'.lexeme = <<"a">>
          /\ (lines = <<QuotedEmpty>> /\ steps = 1)
             => phase' = "scanning" /\ Token'.type = "TOKEN_STRING"
                /\ Token'.lexeme = <<>>]_vars

\* The literals that are not empty are scanned as the claim says.
StringLexemeNotEmpty ==
  [][scan_next
       => /\ (lines = <<Quoted>> /\ steps = 0)
             => phase' = "scanning" /\ Token'.type = "TOKEN_STRING"
                /\ Token'.lexeme = <<"a", "b">>
          /\ (lines = <<QuotedEmpty>> /\ steps = 0)
             => phase' = "scanning" /\ Token'.type = "TOKEN_STRING"
                /\ Token'.lexeme = <<"a">>]_vars

\* The word find_keyword was called on and the value it returned.
Looked(word) == phase = "looked" /\ lines = <<word>>

\* The word was scanned as one token.
Scanned(word) == phase = "scanning" /\ lines = <<word>> /\ steps = 1

\* find_keyword and the scanner know the word as the keyword of the type.
KnownAs(word, type) ==
  /\ Looked(word) => result = type
  /\ Scanned(word) => Token.type = type

\* The 23 spellings of the table are known as their keywords.
SpellingsKnown ==
  \A i \in 1..NUM_KEYWORDS : KnownAs(keywords[i].word, keywords[i].token_type)

(***************************************************************************)
(* C23.  find_keyword returns the token type of the keyword for each of    *)
(* the 23 spellings and for the reserved words print and var, and the      *)
(* scanner returns that type, not TOKEN_IDENTIFIER, for each of them.      *)
(***************************************************************************)
C23_KeywordsFound ==
  /\ SpellingsKnown
  /\ KnownAs(<<"p","r","i","n","t">>, "TOKEN_PRINT")
  /\ KnownAs(<<"v","a","r">>, "TOKEN_VAR")

\* The words that are no keyword and do not both begin with a keyword and
\* have its hash are not taken for one.
StrangersUnknown ==
  \A word \in Strangers \ {<<"d","o","i","q","t">>} :
    /\ Looked(word) => result = NO_KEYWORD
    /\ Scanned(word) => Token.type = "TOKEN_IDENTIFIER"

(***************************************************************************)
(* C24.  find_keyword returns zero for every word that is not equal to a   *)
(* keyword spelling: the empty word, a word longer than 6 characters, a    *)
(* word in another case, a misspelled word, a word with the hash of a      *)
(* keyword and a word that begins with a keyword.                          *)
(***************************************************************************)
C24_StrangersNotFound ==
  \A word \in Strangers : Looked(word) => result = NO_KEYWORD

\* The instruction run() is about to execute finds an operand it rejects.
Rejects ==
  LET numbers == Operand(0).type \in {"OBJ_INTEGER", "OBJ_REAL"}
                   /\ Operand(1).type \in {"OBJ_INTEGER", "OBJ_REAL"}
  IN  \/ /\ Instruction \in {"OP_GREATER", "OP_LESS", "OP_SUBTRACT", "OP_MULTIPLY",
                             "OP_DIVIDE", "OP_POWER"}
         /\ ~numbers
      \/ /\ Instruction = "OP_ADD"
         /\ ~numbers
         /\ ~(Operand(0).type = "OBJ_STRING" /\ Operand(1).type = "OBJ_STRING")
      \/ /\ Instruction = "OP_MODULUS"
         /\ ~(Operand(0).type = "OBJ_INTEGER" /\ Operand(1).type = "OBJ_INTEGER")
      \/ /\ Instruction = "OP_NEGATE"
         /\ Operand(0).type \notin {"OBJ_INTEGER", "OBJ_REAL"}

\* run() has returned the runtime error: the stack is empty, one message
\* was written, and the instruction pointer stays where the failure left it
\* until the next line is compiled.
Rejected ==
  /\ result' = "INTERPRET_RUNTIME_ERROR"
  /\ phase' = "idle"
  /\ vm'.stack = <<>>
  /\ vm'.ip = vm.ip + 1
  /\ Len(errs') = Len(errs) + 1
  /\ LastErr'.type = "runtime"
  /\ out' = out

(***************************************************************************)
(* C25.  An arithmetic or comparison instruction with a non-numeric        *)
(* operand, an ADD of a string and a number, a MODULUS with an operand     *)
(* that is no Integer and a NEGATE of a non-number make run() return       *)
(* INTERPRET_RUNTIME_ERROR with the operand stack reset to empty, and no   *)
(* later instruction of the chunk is executed.                             *)
(***************************************************************************)
C25_ValidationFailure ==
  [][(Rejects /\ \E ub \in UBChoices : run(ub)) => Rejected]_vars

\* A rejected operand has been met and the prompt is back.
C25_Witness ==
  /\ result = "INTERPRET_RUNTIME_ERROR"
  /\ phase = "idle"
  /\ vm.stack = <<>>
  /\ LastLine = SrcArith
  /\ LastErr.message = "Operands must be numeric."

\* The number of tokens next_token() returns from a text before the
\* TOKEN_EOF, or before the call that aborts.
RECURSIVE CountFrom(_)
CountFrom(source) ==
  LET r == next_token(source)
  IN  IF r.token.type = "TOKEN_EOF" \/ r.token.lexeme = DIE THEN 0
      ELSE 1 + CountFrom(r.source)

TokenCount(text) == CountFrom(source_create(text))

\* The call of next_token() returns the TOKEN_EOF after a second buffer
\* was added.
EndOfSecond ==
  /\ scan_next
  /\ Len(lines) = 2
  /\ Token'.type = "TOKEN_EOF"

(***************************************************************************)
(* C26.  When a second buffer is added while the current buffer is not     *)
(* finished, the tokens of the new buffer are returned and then the rest   *)
(* of the earlier buffer: the TOKEN_EOF comes only when every token of     *)
(* both buffers has been returned.                                         *)
(***************************************************************************)
C26_ResumesEarlier ==
  [][EndOfSecond => steps' = TokenCount(lines[1]) + TokenCount(lines[2]) + 1]_vars

\* The tokens of the new buffer are all returned before the TOKEN_EOF.
NewBufferScanned ==
  [][EndOfSecond => /\ steps' >= TokenCount(lines[2]) + 1
                    /\ steps' <= TokenCount(lines[1]) + TokenCount(lines[2]) + 1]_vars

\* The instructions with a 16-bit operand, those with a one-byte operand,
\* and the number of bytes of the instruction at an offset.
JumpOps == {Op("OP_JUMP"), Op("OP_JUMP_IF_FALSE"), Op("OP_LOOP")}

ByteOps ==
  {Op("OP_CONSTANT"), Op("OP_GET_LOCAL"), Op("OP_SET_LOCAL"), Op("OP_GET_GLOBAL"),
   Op("OP_DEFINE_GLOBAL"), Op("OP_SET_GLOBAL")}

Size(code, at) ==
  IF code[at + 1] \in JumpOps THEN 3 ELSE IF code[at + 1] \in ByteOps THEN 2 ELSE 1

\* The chunk is read from its first byte, one instruction after the other;
\* the offsets of the instructions that are wanted are kept (the jumps,
\* when no offset is wanted).  A walk at a level is Stride walks of the
\* level below, and at level 0 one instruction.
Stride == 41

RECURSIVE Walk(_, _, _, _, _)
Walk(code, wanted, level, turns, s) ==
  IF turns = 0 \/ s.at >= Len(code) THEN s
  ELSE Walk(code, wanted, level, turns - 1,
            IF level > 0 THEN Walk(code, wanted, level - 1, Stride, s)
            ELSE [at |-> s.at + Size(code, s.at),
                  kept |-> IF (wanted = {} /\ code[s.at + 1] \in JumpOps) \/ s.at \in wanted
                             THEN s.kept \cup {s.at} ELSE s.kept])

Kept(code, wanted) == Walk(code, wanted, 2, Stride, [at |-> 0, kept |-> {}]).kept

\* The offsets of the jump instructions of a chunk, and the offset a jump
\* leads to: the 16-bit big-endian operand added to the address just after
\* it, subtracted for OP_LOOP.
JumpSites(code) == Kept(code, {})

Target(code, at) ==
  LET operand == code[at + 2] * 256 + code[at + 3]
  IN  IF code[at + 1] = Op("OP_LOOP") THEN at + 3 - operand ELSE at + 3 + operand

\* Every jump of the chunk leads to the first byte of an instruction of it.
JumpsLand(code) ==
  LET targets == {Target(code, at) : at \in JumpSites(code)}
  IN  Kept(code, targets) = targets

\* The chunk of a compile that returned true.
Successful == phase = "running" \/ (phase = "compiled" /\ ~parser.had_error)

\* In the chunks of compile_if and compile_while the conditional jump is to
\* reach the OP_POP before the OP_RETURN from the address 5, and the OP_LOOP
\* the offset 0 from the address of that OP_POP.
TooFar ==
  LET code == vm.chunk.code
  IN  \/ (Len(code) - 2) - 5 > UINT16_MAX
      \/ code[Len(code) - 4] = Op("OP_LOOP") /\ Len(code) - 2 > UINT16_MAX

(***************************************************************************)
(* C27.  In a chunk produced by a successful compile every OP_JUMP,        *)
(* OP_JUMP_IF_FALSE and OP_LOOP leads, by its 16-bit big-endian operand    *)
(* applied to the address just after the operand, to the first byte of an  *)
(* instruction of the same chunk; a forward distance or a loop larger than *)
(* 65535 is a compile error.                                               *)
(***************************************************************************)
C27_JumpTargets ==
  /\ Successful => JumpsLand(vm.chunk.code)
  /\ (phase = "compiled" /\ TooFar) => parser.had_error /\ result = "FALSE"

\* run() is about to execute the OP_LOOP of  while (1 < 2) 3;  which leads
\* back to the first instruction of the chunk.
C27_Witness ==
  /\ Instruction = "OP_LOOP"
  /\ LastLine = SrcSpin
  /\ Target(vm.chunk.code, vm.ip - 1) = 0

\* The number of locals live where the compiler emitted the instruction at
\* vm.ip: the number noted at the start of the statement it belongs to.
LiveLocals ==
  LET before == {k \in marks : k.at + 1 <= vm.ip}
      last == CHOOSE k \in before : \A j \in before : j.at <= k.at
  IN  {k.height : k \in {j \in before : j.at = last.at}}

\* The local the instruction at vm.ip names.
Slot == vm.chunk.code[vm.ip + 1]

\* The slots 0 .. n - 1 of the stack hold n locals, and what the instruction
\* itself works on lies above them.
LocalsBelow(n) ==
  /\ Slot < n
  /\ n <= Len(vm.stack) - (IF Instruction = "OP_SET_LOCAL" THEN 1 ELSE 0)

LocalsSetCode ==
  <<Op("OP_CONSTANT"), 0, Op("OP_GET_LOCAL"), 0, Op("OP_CONSTANT"), 1, Op("OP_ADD"),
    Op("OP_GET_LOCAL"), 1, Op("OP_SET_LOCAL"), 0, Op("OP_POP"), Op("OP_POP"), Op("OP_POP"),
    Op("OP_RETURN")>>

\* The same for the locals that are declared with an initializer; in the
\* chunk above a is 1 when b is initialized, b is 2 when it is read, and
\* the 2 is what is assigned to a.
InitializedLocalSlots ==
  (Instruction \in {"OP_GET_LOCAL", "OP_SET_LOCAL"} /\ LastLine = LocalsSet)
    => /\ \A n \in LiveLocals : LocalsBelow(n)
       /\ vm.chunk.code = LocalsSetCode
            => /\ heap[vm.stack[1]].value = 1
               /\ Instruction = "OP_GET_LOCAL" => heap[vm.stack[Slot + 1]].value = Slot + 1
               /\ Instruction = "OP_SET_LOCAL"
                    => heap[vm.stack[2]].value = 2 /\ Operand(0).value = 2

\* An insert into vm.globals would push count + 1 above 0.75 x capacity.
MustGrow == 4 * (vm.globals.count + 1) > 3 * vm.globals.capacity

\* The keys table_search finds in vm.globals.
Found == {k \in GrowKeys : Lookup("globals", k) \notin {0, WILD}}

\* What the claim says of a call of table_insert: it returns with the load
\* within the limit and, when it had to grow the table, with the capacity 8
\* or doubled and every key found before still bound to the same value.
GrownAndKept ==
  /\ phase' = "idle"
  /\ 4 * vm'.globals.count <= 3 * vm'.globals.capacity
  /\ MustGrow
       => /\ vm'.globals.capacity = (IF vm.globals.capacity < 8 THEN 8
                                     ELSE 2 * vm.globals.capacity)
          /\ \A k \in Found : Lookup("globals", k)' = Lookup("globals", k)
  /\ ~MustGrow => vm'.globals.capacity = vm.globals.capacity

\* The step is a call of table_insert on vm.globals.
Inserted == \E k \in GrowKeys, ub \in UBChoices : grow(k, ub)

(***************************************************************************)
(* C29.  When an insert would push count + 1 above 0.75 x capacity the     *)
(* table grows, to 8 buckets if it had fewer and to twice as many          *)
(* otherwise, and every entry is rehashed: every key table_search found    *)
(* before is found with the same value after; count <= 0.75 x capacity     *)
(* holds after every insert.                                               *)
(***************************************************************************)
C29_GrowRehashes ==
  [][Inserted => GrownAndKept]_vars

\* The calls that return do as the claim says.
GrowReturned ==
  [][(Inserted /\ Survives) => GrownAndKept]_vars

\* The step is one declaration() of compile(), and the end of compile().
Declared == \E ub \in UBChoices : declare(ub)

Ended == \E ub \in UBChoices : end_compile(ub)

\* Where synchronize() stops.
Synchronized ==
  \/ parser.previous.type = "TOKEN_SEMICOLON"
  \/ parser.current.type \in
       {"TOKEN_CLASS", "TOKEN_DEF", "TOKEN_IF", "TOKEN_WHILE", "TOKEN_RETURN", "TOKEN_EOF"}

(***************************************************************************)
(* C30.  Once a compile error has been reported no further error is        *)
(* reported until synchronize() has cleared panic_mode: a declaration      *)
(* reports at most one error however many its tokens would cause, and      *)
(* after it panic_mode is clear with the parser just after a ; or just     *)
(* before class, def, if, while or return, or at the end (after junk       *)
(* followed by an if statement, at the if); compile() returns false when   *)
(* at least one error was reported, also when the later statements compile *)
(* cleanly.  A ( that follows an operand has no infix rule to be called;   *)
(* the declarations that end there are left aside.                         *)
(***************************************************************************)
C30_PanicMode ==
  [][/\ (Declared /\ phase' = "compiling")
        => /\ Len(errs') <= Len(errs) + 1
           /\ ~parser'.panic_mode
           /\ Len(errs') > Len(errs) => Synchronized'
           /\ (lines = <<Junk \o IfClean \o Clean>> /\ steps = 0)
                => parser'.current.type = "TOKEN_IF" /\ Len(errs') = 1
     /\ Ended
        => /\ errs # <<>> => result' = "FALSE"
           /\ errs' = errs]_vars

\* An error was reported in the first statement, the other two compiled
\* cleanly, and compile() has returned false.
C30_Witness ==
  /\ phase = "compiled"
  /\ lines = <<Dangling \o IfClean \o Clean>>
  /\ Len(errs) = 1
  /\ result = "FALSE"

\* run() takes a step that reports a runtime error.
Raises ==
  /\ \E ub \in UBChoices : run(ub)
  /\ result' = "INTERPRET_RUNTIME_ERROR"
  /\ Len(errs') = Len(errs) + 1

(***************************************************************************)
(* C31.  The line a runtime error prints is the line recorded in           *)
(* chunk.lines for the opcode byte of the instruction that raised it, the  *)
(* byte at vm.ip when the instruction was fetched, and not the line of a   *)
(* byte that follows it.                                                   *)
(***************************************************************************)
C31_LineOfOpcode ==
  [][Raises => LastErr'.line = vm.chunk.lines[vm.ip]]_vars

\* The line printed is the one recorded for the byte behind the instruction
\* and its operand, where vm.ip stands when runtime_error() is called.
LineOfNextByte ==
  [][Raises => LastErr'.line = vm.chunk.lines[vm'.ip]]_vars

\* An undefined global read on line 1 has been reported with line 2.
LineOfNextByteSeen ==
  /\ result = "INTERPRET_RUNTIME_ERROR"
  /\ LastLine = SrcGetSplit
  /\ LastErr.line = 2

\* run() stands at the OP_POP that ends the expression statement of the line.
AtStatementEnd ==
  /\ phase = "running"
  /\ vm.ip = Len(vm.chunk.code) - 1
  /\ Instruction = "OP_POP"

\* The value the expression of a line has.
Valued(text) ==
  CASE text = SrcAndFalse -> [type |-> "OBJ_BOOLEAN", value |-> FALSE]
    [] text = SrcAndNil -> [type |-> "OBJ_NIL", value |-> 0]
    [] text = SrcAndBoth -> [type |-> "OBJ_INTEGER", value |-> 2]
    [] text = SrcAndSets -> [type |-> "OBJ_INTEGER", value |-> 2]
    [] text = SrcOrTrue -> [type |-> "OBJ_BOOLEAN", value |-> TRUE]
    [] text = SrcOrSeven -> [type |-> "OBJ_INTEGER", value |-> 7]
    [] text = SrcOrBoth -> [type |-> "OBJ_INTEGER", value |-> 3]
    [] text = SrcOrNeither -> [type |-> "OBJ_BOOLEAN", value |-> FALSE]
    [] text = SrcAndOr -> [type |-> "OBJ_INTEGER", value |-> 5]

(***************************************************************************)
(* C32.  Short-circuit evaluation.  In a & b the code of b is not executed *)
(* when a is falsey and the value is a; in a | b the code of b is not      *)
(* executed when a is truthy and the value is a; otherwise the value is    *)
(* b.  In every case exactly one value is on the stack when the statement  *)
(* ends: the skipped -nil raises no runtime error, the skipped assignments *)
(* to x and i define no global, and every line ends with INTERPRET_OK.     *)
(***************************************************************************)
C32_ShortCircuit ==
  /\ AtStatementEnd
       => /\ Len(vm.stack) = 1
          /\ Operand(0).type = Valued(LastLine).type
          /\ Operand(0).value = Valued(LastLine).value
  /\ phase \in {"running", "idle"}
       => /\ errs = <<>>
          /\ defined \subseteq {<<"a">>}
          /\ result \in {"NONE", "INTERPRET_OK"}
  /\ (phase = "idle" /\ lines # <<>>) => result = "INTERPRET_OK" /\ vm.stack = <<>>

\* After false & -nil; the line 0 & (a = 2); has executed its right operand
\* and stands at the end of its statement with the value 2.
C32_Witness ==
  /\ AtStatementEnd
  /\ lines = <<SrcAndFalse, SrcAndSets>>
  /\ defined = {<<"a">>}
  /\ Operand(0).value = 2

\* advance() moves parser.current to parser.previous before it scans, and
\* the TOKEN_EOF is the token whose scan destroys the buffer: a compile that
\* returns with TOKEN_EOF in parser.previous has called advance(), and with
\* it next_token() and remove_current_buffer(), after the buffer was
\* destroyed.  Where freed memory cannot be read the call does not return.
ScannedDestroyed ==
  \/ lines # <<>> /\ phase \in {"idle", "running"} /\ parser.previous.type = "TOKEN_EOF"
  \/ phase = "crash"

(***************************************************************************)
(* C33.  Within one compile the compiler never calls next_token() after    *)
(* remove_current_buffer() has destroyed the current source buffer: for    *)
(* every line, the empty line and a line that ends inside an expression    *)
(* included, no token is scanned from a destroyed buffer and no buffer is  *)
(* destroyed twice.                                                        *)
(***************************************************************************)
C33_NoScanAfterDestroy == ~ScannedDestroyed

\* The lines that end with a complete statement, or lack only a closing
\* token, are compiled without a scan of the destroyed buffer; the lines
\* that end where a token must follow, and the empty line, are not.
ScanAfterDestroyOnlyWhenCut ==
  (lines # <<>> /\ phase \in {"idle", "running", "crash"})
    => (ScannedDestroyed <=> LastLine \in Cut)

\* The empty line compiled where freed memory still reads as before.
EmptyLineScannedTwice ==
  /\ lines = <<SrcEmpty>>
  /\ phase = "running"
  /\ parser.previous.type = "TOKEN_EOF"
  /\ scanner.destroyed

\* The token types the loop of parse_precedence() takes for an infix
\* operator, at some precedence, and whose rule has no infix function.
RulesWithoutInfix ==
  {type \in TokenTypes :
     get_rule(type).precedence > PREC_NONE /\ get_rule(type).infix = "NULL"}

\* A ( or a . stands behind the first symbol of the text being compiled,
\* where the loop of parse_precedence() can meet it.
CallTokenInside ==
  \E i \in 3..Len(lines[1]) : lines[1][i] \in {"(", "."}

(***************************************************************************)
(* C34.  The Pratt driver never calls a null parse function: every token   *)
(* type whose rule has a precedence above PREC_NONE has an infix function, *)
(* so for every sequence of tokens a declaration either dispatches to      *)
(* defined rules or reports a compile error, and returns.  (Stated for the *)
(* build in which a freed source buffer still reads as before, where       *)
(* nothing else ends a declaration.)                                       *)
(***************************************************************************)
C34_NoNullRule ==
  [][declare("benign") => phase' = "compiling"]_vars

\* The two rules without infix function; no declaration fails on a text
\* that has neither ( nor . behind its first symbol.
NullRuleOnlyAtCallTokens ==
  [][/\ RulesWithoutInfix = {"TOKEN_LEFT_PAREN", "TOKEN_DOT"}
     /\ (declare("benign") /\ ~CallTokenInside) => phase' = "compiling"]_vars

\* The null infix function of ( has been called on the text 1 ( .
NullRuleCalled ==
  /\ lines = <<Spaced(<<"1", "(">>)>>
  /\ phase = "crash"
  /\ parser.previous.type = "TOKEN_LEFT_PAREN"

\* run() is about to execute OP_MODULUS on two Integers.
ModulusOfIntegers ==
  /\ Instruction = "OP_MODULUS"
  /\ Len(vm.stack) >= 2
  /\ Operand(0).type = "OBJ_INTEGER"
  /\ Operand(1).type = "OBJ_INTEGER"

(***************************************************************************)
(* C35.  OP_MODULUS with two Integer operands whose right operand is 0     *)
(* ends in a defined outcome: the step makes interpret return              *)
(* INTERPRET_RUNTIME_ERROR with a message, as for a division by zero, and  *)
(* a % 0 is not evaluated.                                                 *)
(***************************************************************************)
C35_ModuloByZero ==
  [][(ModulusOfIntegers /\ Operand(0).value = 0 /\ \E ub \in UBChoices : run(ub))
       => /\ result' = "INTERPRET_RUNTIME_ERROR"
          /\ phase' = "idle"
          /\ Len(errs') = Len(errs) + 1]_vars

\* With a right operand that is not zero the step pushes the remainder of
\* the truncated division and the run goes on.
ModuloByNonZero ==
  [][(ModulusOfIntegers /\ Operand(0).value # 0 /\ \E ub \in UBChoices : run(ub))
       => /\ phase' = "running"
          /\ errs' = errs
          /\ Len(vm'.stack) = Len(vm.stack) - 1
          /\ Operand(0)'.type = "OBJ_INTEGER"
          /\ Operand(0)'.value = trunc_rem(Operand(1).value, Operand(0).value)]_vars

\* 7 % 0 has been evaluated without a trap and the line has ended well.
ModuloByZeroEvaluated ==
  /\ lines = <<SrcModZero>>
  /\ phase = "idle"
  /\ result = "INTERPRET_OK"
  /\ errs = <<>>

\* The keys table_search finds in a table.
Present(tn) == {j \in Keys : Lookup(tn, j) \notin {0, WILD}}

\* The head of the bucket a key hashes to: 0 when the bucket is empty or
\* the table has no buckets yet.
HeadOf(tn, k) ==
  LET head(m) == m[tn].entries[object_hash(m, m.ret, m[tn].capacity) + 1]
  IN  IF vm[tn].entries = <<>> THEN 0 ELSE head(create_integer(Machine("benign"), k))

\* The step is a call of table_insert, with a key table_search does not
\* find, that returned.
InsertedNew(tn, k) ==
  /\ Lookup(tn, k) = 0
  /\ phase' = "idle"
  /\ \E ub \in UBChoices : insert(tn, k, ub)

(***************************************************************************)
(* C36.  Inserting a new key never makes an existing key unreachable:      *)
(* after table_insert(k, v) of a key not yet present, every key that was   *)
(* present before, the keys in the bucket of k among them, is still        *)
(* returned by table_search with its value.                                *)
(***************************************************************************)
C36_InsertKeepsKeys ==
  [][\A tn \in Tables, k \in Keys :
       InsertedNew(tn, k) => \A j \in Present(tn) : Lookup(tn, j)' = Lookup(tn, j)]_vars

\* The same for a key whose bucket is empty, and what happens otherwise:
\* the new entry takes the place of the head of the bucket, which is found
\* no more.
InsertKeepsOtherBuckets ==
  [][\A tn \in Tables, k \in Keys :
       InsertedNew(tn, k)
         => /\ Lookup(tn, k)' \notin {0, WILD}
            /\ HeadOf(tn, k) = 0 => \A j \in Present(tn) : Lookup(tn, j)' = Lookup(tn, j)
            /\ HeadOf(tn, k) # 0
                 => \E j \in Present(tn) :
                      /\ ents[HeadOf(tn, k)].key = Lookup(tn, j)
                      /\ Lookup(tn, j)' = 0]_vars

\* Key 9 was inserted behind key 1, which has the same bucket: 1 is lost.
HeadReplaced ==
  /\ Lookup("globals", 9) \notin {0, WILD}
  /\ Lookup("globals", 1) = 0
  /\ vm.globals.count = 2

(***************************************************************************)
(* C37.  After any sequence of table_insert, table_delete and grows, the   *)
(* count of a table equals the number of distinct keys that table_search   *)
(* finds in it.                                                            *)
(***************************************************************************)
C37_CountIsKeysFound ==
  phase = "idle" => \A tn \in Tables : vm[tn].count = Cardinality(Present(tn))

\* count is never below the number of keys found, and it is that number
\* as long as the keys 1 and 9, which share a bucket, were not both given
\* to the table.
CountAtLeastKeysFound ==
  phase = "idle"
    => \A tn \in Tables :
         /\ vm[tn].count >= Cardinality(Present(tn))
         /\ vm[tn].count > Cardinality(Present(tn))
              => \E e, f \in 1..Len(ents) :
                   heap[ents[e].key].value = 1 /\ heap[ents[f].key].value = 9

\* Two inserts have been counted and one key is found.
CountAboveKeysFound ==
  /\ phase = "idle"
  /\ vm.globals.count = 2
  /\ Cardinality(Present("globals")) = 1

\* What compile() has left to read: the characters behind the scanner's
\* position, and the current token while it is not TOKEN_EOF.
Remaining ==
  Len(scanner.source.buffer) + 1 - scanner.source.current
    + (IF parser.current.type = "TOKEN_EOF" THEN 0 ELSE 1)

\* compile() has emitted its OP_RETURN and returned.
Returned ==
  /\ phase = "compiled"
  /\ vm.chunk.code # <<>>
  /\ vm.chunk.code[Len(vm.chunk.code)] = Op("OP_RETURN")

(***************************************************************************)
(* C38.  compile() terminates on every finite source: every turn of the    *)
(* loop over the declarations returns with at least one token consumed,    *)
(* the loops inside it with it, and the end of compile() emits OP_RETURN   *)
(* and returns; what is left to read can only shrink, so OP_RETURN is      *)
(* always eventually emitted.                                              *)
(***************************************************************************)
C38_Terminates ==
  [][/\ Declared => phase' = "compiling" /\ Remaining' < Remaining
     /\ Ended => Returned']_vars

\* The turns that return consume at least one token, and the end emits
\* OP_RETURN.
TurnsThatReturnConsume ==
  [][/\ (Declared /\ phase' = "compiling") => Remaining' < Remaining
     /\ Ended => Returned']_vars

\* Under SpecEndsFair compile() stops on every text: it returns with
\* OP_RETURN emitted, or the process ends inside it.
CompileStops == (phase = "compiling") ~> (Returned \/ phase = "crash")

\* compile() has ended inside parse_precedence on the text 1 ( .
CompileCut ==
  /\ lines = <<<<"1", " ", "(", " ">>>>
  /\ phase = "crash"
  /\ vm.chunk.code[Len(vm.chunk.code)] # Op("OP_RETURN")

\* The step about to be taken is an OP_SET_GLOBAL or OP_DEFINE_GLOBAL whose
\* name is the given one or a name with the same bucket in vm.globals.
AssignsInBucketOf(name) ==
  /\ Instruction \in {"OP_SET_GLOBAL", "OP_DEFINE_GLOBAL"}
  /\ string_hash(OperandName, vm.globals.capacity)
       = string_hash(name, vm.globals.capacity)

\* The step about to be taken assigns the global of that name.
Assigns(name) ==
  /\ Instruction \in {"OP_SET_GLOBAL", "OP_DEFINE_GLOBAL"}
  /\ OperandName = name

(***************************************************************************)
(* C39.  A global defined by one interpret() call stays bound to its       *)
(* latest value in every later interpret() call on the VM until vm_free:   *)
(* no step of a compile or of a run, whether it ends in a compile error, a *)
(* runtime error or well, and whatever other globals and strings it        *)
(* creates, changes the value bound to a name, except the assignment to    *)
(* that name.                                                              *)
(***************************************************************************)
C39_GlobalsPersist ==
  [][\A name \in Names :
       (Global(name) # 0 /\ Survives /\ ~Assigns(name))
         => Global(name)' = Global(name)]_vars

\* The bindings outlive everything but an assignment in their own bucket:
\* a compile error, a runtime error and every other instruction leave them
\* as they are.
GlobalsPersistOutsideBucket ==
  [][\A name \in Names :
       (Global(name) # 0 /\ Survives /\ ~AssignsInBucketOf(name))
         => Global(name)' = Global(name)]_vars

\* After a = 1; the line i = 2; a; has been interpreted: i is bound, a is
\* not, and the read of a was a runtime error.
GlobalLost ==
  /\ lines = <<SrcSetA1, SrcSetI>>
  /\ phase = "idle"
  /\ result = "INTERPRET_RUNTIME_ERROR"
  /\ Global(<<"i">>) # 0
  /\ Global(<<"a">>) = 0

\* The step is an interpret() call.
InterpretCalled == Len(lines') = Len(lines) + 1

\* The object bound to a name in vm.globals is the same before and after
\* the step; so is the absence of one.
SameBinding(name) ==
  /\ Global(name)' = Global(name)
  /\ Global(name) # 0 => heap'[Global(name)] = heap[Global(name)]

(***************************************************************************)
(* C40.  When compilation reports any error, interpret returns             *)
(* INTERPRET_COMPILE_ERROR without executing a single instruction of the   *)
(* chunk: an interpret() call whose compile set had_error and returned     *)
(* ends at the prompt with that result, run() is not entered, nothing is   *)
(* printed, and the operand stack, the globals table and the object bound  *)
(* to every name are the same after the call as before it.                 *)
(***************************************************************************)
C40_CompileErrorFrame ==
  [][(InterpretCalled /\ parser'.had_error /\ phase' # "crash")
       => /\ phase' = "idle"
          /\ result' = "INTERPRET_COMPILE_ERROR"
          /\ Len(errs') > Len(errs)
          /\ out' = out
          /\ vm'.stack = vm.stack
          /\ vm'.globals = vm.globals
          /\ \A name \in Names : SameBinding(name)]_vars

\* After a = 1; the line a = 2; 1 +; has been refused: a is still 1.
C40_Witness ==
  /\ lines = <<SrcSetA1, SrcSetFail>>
  /\ phase = "idle"
  /\ result = "INTERPRET_COMPILE_ERROR"
  /\ parser.had_error
  /\ Global(<<"a">>) # 0
  /\ heap[Global(<<"a">>)].value = 1

====
